---- MODULE Spec2Model ----
(***************************************************************************)
(* Convergence waits of the AWS provider.                                  *)
(*                                                                         *)
(* The refresh functions and the wait configurations are those of          *)
(* internal/service/rds/cluster_endpoint.go and of the EFS status file.    *)
(* The poll loop itself (StateChangeConf.WaitForState) is library code     *)
(* that is not part of the source tree; it is modelled after section 4.1   *)
(* of the specification ("Convergence Waiter").                            *)
(*                                                                         *)
(* Time is counted in seconds.                                             *)
(***************************************************************************)
EXTENDS Integers, Sequences, FiniteSets, TLC

\* wait, cancelled: a convergence wait and its caller's cancellation signal;
\* peer: a second wait running beside it; rd: the resource data a handler
\* works on and how far the handler has come; filt: a listing of Lake
\* Formation permissions and what the filter made of it
VARIABLES wait, cancelled, peer, rd, filt

vars == <<wait, cancelled, peer, rd, filt>>

Max(a, b) == IF a >= b THEN a ELSE b

Min(a, b) == IF a <= b THEN a ELSE b

(***************************************************************************)
(* Bounds of the model.                                                    *)
(***************************************************************************)
\* largest timeout a caller passes to a wait
MaxTimeout == 17

\* largest timeout of the waits that are not the RDS ones
MaxShortTimeout == 5

\* longest time one refresh call takes
MaxRefreshTime == 1

\* largest Delay / MinTimeout of the wait configurations that are not the
\* RDS ones
MaxDelay == 2

MaxMinTimeout == 2

Timeouts == {2, MaxTimeout}

ShortTimeouts == {1, MaxShortTimeout}

(***************************************************************************)
(* Remote API responses.  A describe call answers with an error (or none)  *)
(* and an output that may be nil and lists zero or more entities, each     *)
(* with a status; a list element may itself be nil ("nilitem").            *)
(***************************************************************************)
Statuses == {"creating", "available", "deleting", "error"}

NilItem == "nilitem"

NoError == "nil"

ErrCodeDBClusterNotFoundFault == "DBClusterNotFoundFault"

ErrNotFound == "NotFoundError"

ErrOther == "InternalFailure"

Bodies ==
    {<<>>} \cup {<<s>> : s \in Statuses} \cup {<<"deleting", "available">>}

\* a call that succeeds answers with any body or with a nil output; one
\* that fails leaves the output nil, empty, or filled
Responses(errs, bodies) ==
    [err : {NoError}, isNil : {FALSE}, items : bodies]
        \cup [err : errs \ {NoError}, isNil : {FALSE},
              items : {<<>>, <<"available">>}]
        \cup [err : errs, isNil : {TRUE}, items : {<<>>}]

(***************************************************************************)
(* Refresh results: (snapshot, label, error).                              *)
(***************************************************************************)
NilSnap == [kind |-> "nil", status |-> ""]

EmptySnap == [kind |-> "empty", status |-> ""]

Entity(s) == [kind |-> "entity", status |-> s]

NilErr == [wrap |-> "", cause |-> NoError]

RefreshResult(snap, label, err) == [snap |-> snap, label |-> label, err |-> err]

\* mutant: an absent endpoint is reported with the empty label, as the EFS
\* status functions do
DBClusterEndpointStateRefreshFunc_EmptyLabel(resp) ==
    IF resp.err # NoError
    THEN IF resp.err = ErrCodeDBClusterNotFoundFault
         THEN RefreshResult(EmptySnap, "", NilErr)
         ELSE IF ~resp.isNil /\ Len(resp.items) = 0
              THEN RefreshResult(EmptySnap, "", NilErr)
              ELSE RefreshResult(EmptySnap, "",
                       [wrap |-> "Error on refresh", cause |-> resp.err])
    ELSE IF resp.isNil \/ Len(resp.items) = 0
         THEN RefreshResult(EmptySnap, "", NilErr)
         ELSE RefreshResult(Entity(resp.items[1]), resp.items[1], NilErr)

\* mutant: a describe call that fails is an error unless it fails with the
\* cluster-not-found fault, whatever its output lists
DBClusterEndpointStateRefreshFunc_ErrorsStayErrors(resp) ==
    IF resp.err # NoError
    THEN IF resp.err = ErrCodeDBClusterNotFoundFault
         THEN RefreshResult(EmptySnap, "destroyed", NilErr)
         ELSE RefreshResult(EmptySnap, "",
                  [wrap |-> "Error on refresh", cause |-> resp.err])
    ELSE IF resp.isNil \/ Len(resp.items) = 0
         THEN RefreshResult(EmptySnap, "destroyed", NilErr)
         ELSE RefreshResult(Entity(resp.items[1]), resp.items[1], NilErr)

\* rds/cluster_endpoint.go: the refresh function of both RDS endpoint waits
DBClusterEndpointStateRefreshFunc(resp) ==
    IF resp.err # NoError
    THEN IF resp.err = ErrCodeDBClusterNotFoundFault
         THEN RefreshResult(EmptySnap, "destroyed", NilErr)
         ELSE IF ~resp.isNil /\ Len(resp.items) = 0
              THEN RefreshResult(EmptySnap, "destroyed", NilErr)
              ELSE RefreshResult(EmptySnap, "",
                       [wrap |-> "Error on refresh", cause |-> resp.err])
    ELSE IF resp.isNil \/ Len(resp.items) = 0
         THEN RefreshResult(EmptySnap, "destroyed", NilErr)
         ELSE RefreshResult(Entity(resp.items[1]), resp.items[1], NilErr)

\* mutant: an absent access point is reported as "available"
statusAccessPointLifeCycleState_NotFoundIsAvailable(resp) ==
    IF resp.err # NoError
    THEN RefreshResult(NilSnap, "", [wrap |-> "", cause |-> resp.err])
    ELSE IF resp.isNil \/ Len(resp.items) = 0 \/ resp.items[1] = NilItem
         THEN RefreshResult(NilSnap, "available", NilErr)
         ELSE RefreshResult(Entity(resp.items[1]), resp.items[1], NilErr)

\* efs status: DescribeAccessPoints, first access point's LifeCycleState
statusAccessPointLifeCycleState(resp) ==
    IF resp.err # NoError
    THEN RefreshResult(NilSnap, "", [wrap |-> "", cause |-> resp.err])
    ELSE IF resp.isNil \/ Len(resp.items) = 0 \/ resp.items[1] = NilItem
         THEN RefreshResult(NilSnap, "", NilErr)
         ELSE RefreshResult(Entity(resp.items[1]), resp.items[1], NilErr)

\* efs status: findBackupPolicyByID answers (output, err); a not-found
\* error is turned into the not-found sentinel
statusBackupPolicy(resp) ==
    IF resp.err = ErrNotFound
    THEN RefreshResult(NilSnap, "", NilErr)
    ELSE IF resp.err # NoError
         THEN RefreshResult(NilSnap, "", [wrap |-> "", cause |-> resp.err])
         ELSE RefreshResult(Entity(resp.items[1]), resp.items[1], NilErr)

\* mutant: a failed describe call is reported as an absent file system
statusFileSystemLifeCycleState_SwallowsError(resp) ==
    IF resp.err # NoError
    THEN RefreshResult(NilSnap, "", NilErr)
    ELSE IF resp.isNil \/ Len(resp.items) = 0 \/ resp.items[1] = NilItem
         THEN RefreshResult(NilSnap, "", NilErr)
         ELSE RefreshResult(Entity(resp.items[1]), resp.items[1], NilErr)

\* efs status: DescribeFileSystems, first file system's LifeCycleState
statusFileSystemLifeCycleState(resp) ==
    IF resp.err # NoError
    THEN RefreshResult(NilSnap, "", [wrap |-> "", cause |-> resp.err])
    ELSE IF resp.isNil \/ Len(resp.items) = 0 \/ resp.items[1] = NilItem
         THEN RefreshResult(NilSnap, "", NilErr)
         ELSE RefreshResult(Entity(resp.items[1]), resp.items[1], NilErr)

RefreshKinds == {"rdsClusterEndpoint", "efsAccessPoint", "efsBackupPolicy",
                 "efsFileSystem"}

\* the answers the remote call behind each refresh function can give
ResponsesOf(kind) ==
    CASE kind = "rdsClusterEndpoint" ->
             Responses({NoError, ErrCodeDBClusterNotFoundFault, ErrOther}, Bodies)
      [] kind = "efsBackupPolicy" ->
             [err : {NoError}, isNil : {FALSE}, items : {<<s>> : s \in Statuses}]
                 \cup [err : {ErrNotFound, ErrOther}, isNil : {TRUE}, items : {<<>>}]
      [] OTHER ->
             Responses({NoError, ErrOther}, Bodies \cup {<<NilItem>>})

\* the refresh callback of a wait, applied to the remote answer
Refresh(kind, resp) ==
    CASE kind = "rdsClusterEndpoint" -> DBClusterEndpointStateRefreshFunc(resp)
      [] kind = "efsAccessPoint" -> statusAccessPointLifeCycleState(resp)
      [] kind = "efsBackupPolicy" -> statusBackupPolicy(resp)
      [] OTHER -> statusFileSystemLifeCycleState(resp)

\* the remote operations of the handlers that change the remote entity
MutatingOperations ==
    {"CreateDBClusterEndpoint", "ModifyDBClusterEndpoint",
     "DeleteDBClusterEndpoint", "AssociateRouteTable",
     "ReplaceRouteTableAssociation", "DisassociateRouteTable",
     "EnableTransitGatewayRouteTablePropagation",
     "DisableTransitGatewayRouteTablePropagation"}

\* mutant: the refresh function of the RDS waits deletes the endpoint
\* before it describes it
RefreshCalls_DeletesEndpoint(kind) ==
    CASE kind = "rdsClusterEndpoint" ->
             <<"DeleteDBClusterEndpoint", "DescribeDBClusterEndpoints">>
      [] kind = "efsAccessPoint" -> <<"DescribeAccessPoints">>
      [] kind = "efsBackupPolicy" -> <<"findBackupPolicyByID">>
      [] OTHER -> <<"DescribeFileSystems">>

\* the remote operations one call of each refresh function issues
RefreshCalls(kind) ==
    CASE kind = "rdsClusterEndpoint" -> <<"DescribeDBClusterEndpoints">>
      [] kind = "efsAccessPoint" -> <<"DescribeAccessPoints">>
      [] kind = "efsBackupPolicy" -> <<"findBackupPolicyByID">>
      [] OTHER -> <<"DescribeFileSystems">>

\* the count of remote calls a process has issued, by their effect on the
\* remote side: reads leave it as it is, writes change it
NoCalls == [reads |-> 0, writes |-> 0]

Issue(calls, ops) ==
    [reads |-> calls.reads
                   + Cardinality({ i \in DOMAIN ops : ops[i] \notin MutatingOperations }),
     writes |-> calls.writes
                   + Cardinality({ i \in DOMAIN ops : ops[i] \in MutatingOperations })]

(***************************************************************************)
(* Wait configurations.                                                    *)
(***************************************************************************)
AWSRDSClusterEndpointRetryDelay == 5

AWSRDSClusterEndpointRetryMinTimeout == 3

\* the not-found sentinel: empty label (with a nil snapshot)
NotFoundLabel == ""

PolicyKinds == {"none", "linear", "exponential"}

Policies == [kind : PolicyKinds, jitter : BOOLEAN]

\* what the WaitSpec of the specification has and a StateChangeConf of the
\* code leaves unset: no failure labels, refresh errors are fatal
Defaults(conf, policy) ==
    [name |-> conf.name, pending |-> conf.pending, target |-> conf.target,
     failure |-> {}, refresh |-> conf.refresh, timeout |-> conf.timeout,
     delay |-> conf.delay, minTimeout |-> conf.minTimeout,
     retryErrs |-> {}, policy |-> policy]

\* mutant: "available" is listed as a target of the deletion wait as well
WaitForDestroy_AvailableIsTarget(timeout) ==
    [name |-> "rdsWaitForDestroy",
     pending |-> {"available", "deleting"},
     target |-> {"destroyed", "available"},
     refresh |-> "rdsClusterEndpoint",
     timeout |-> timeout,
     delay |-> AWSRDSClusterEndpointRetryDelay,
     minTimeout |-> AWSRDSClusterEndpointRetryMinTimeout]

resourceAwsRDSClusterEndpointWaitForDestroy(timeout) ==
    [name |-> "rdsWaitForDestroy",
     pending |-> {"available", "deleting"},
     target |-> {"destroyed"},
     refresh |-> "rdsClusterEndpoint",
     timeout |-> timeout,
     delay |-> AWSRDSClusterEndpointRetryDelay,
     minTimeout |-> AWSRDSClusterEndpointRetryMinTimeout]

\* mutant: the configuration of the deletion wait pasted into the creation
\* wait
WaitForAvailable_DestroyLabels(timeout) ==
    [name |-> "rdsWaitForAvailable",
     pending |-> {"available", "deleting"},
     target |-> {"destroyed"},
     refresh |-> "rdsClusterEndpoint",
     timeout |-> timeout,
     delay |-> AWSRDSClusterEndpointRetryDelay,
     minTimeout |-> AWSRDSClusterEndpointRetryMinTimeout]

\* mutant: the label of an endpoint that is not there is a target of the
\* creation wait
resourceAwsRDSClusterEndpointWaitForAvailable_DestroyedIsTarget(timeout) ==
    [name |-> "rdsWaitForAvailable",
     pending |-> {"creating"},
     target |-> {"available", "destroyed"},
     refresh |-> "rdsClusterEndpoint",
     timeout |-> timeout,
     delay |-> AWSRDSClusterEndpointRetryDelay,
     minTimeout |-> AWSRDSClusterEndpointRetryMinTimeout]

resourceAwsRDSClusterEndpointWaitForAvailable(timeout) ==
    [name |-> "rdsWaitForAvailable",
     pending |-> {"creating"},
     target |-> {"available"},
     refresh |-> "rdsClusterEndpoint",
     timeout |-> timeout,
     delay |-> AWSRDSClusterEndpointRetryDelay,
     minTimeout |-> AWSRDSClusterEndpointRetryMinTimeout]

\* label sets of the waits on the EFS status functions: a creation wait
\* with a failure label, a deletion wait whose target is absence, a wait
\* without failure labels, and a wait that retries on a refresh error
OtherLabelSets ==
    { [name |-> "fileSystemCreated", refresh |-> "efsFileSystem",
       pending |-> {"creating"}, target |-> {"available"},
       failure |-> {"error"}, retryErrs |-> {}],
      [name |-> "fileSystemDeleted", refresh |-> "efsFileSystem",
       pending |-> {"available", "deleting"}, target |-> {NotFoundLabel},
       failure |-> {"error"}, retryErrs |-> {}],
      [name |-> "accessPointCreated", refresh |-> "efsAccessPoint",
       pending |-> {"creating"}, target |-> {"available"},
       failure |-> {}, retryErrs |-> {}],
      [name |-> "backupPolicyAvailable", refresh |-> "efsBackupPolicy",
       pending |-> {"creating"}, target |-> {"available"},
       failure |-> {"error", "deleting"}, retryErrs |-> {ErrOther}] }

OtherWaitSpecs ==
    { [name |-> l.name, pending |-> l.pending, target |-> l.target,
       failure |-> l.failure, refresh |-> l.refresh, timeout |-> t,
       delay |-> d, minTimeout |-> m, retryErrs |-> l.retryErrs,
       policy |-> p] :
        l \in OtherLabelSets, t \in ShortTimeouts, d \in {0, MaxDelay},
        m \in {1, MaxMinTimeout}, p \in Policies }

RDSWaitSpecs ==
    { Defaults(c, p) :
        c \in { resourceAwsRDSClusterEndpointWaitForDestroy(t) : t \in Timeouts }
              \cup { resourceAwsRDSClusterEndpointWaitForAvailable(t) : t \in Timeouts },
        p \in Policies }

WaitSpecs == RDSWaitSpecs \cup OtherWaitSpecs

(***************************************************************************)
(* The poll loop (specification, section 4.1).                             *)
(***************************************************************************)
\* mutant: the failure labels are not consulted
Classify_NoFailureSet(spec, res) ==
    IF res.err.cause # NoError
    THEN IF res.err.cause \in spec.retryErrs THEN "retry" ELSE "error"
    ELSE IF res.label \in spec.target THEN "target"
    ELSE IF res.label \in spec.pending THEN "pending"
    ELSE "unexpected"

\* how the waiter reads one refresh result
Classify(spec, res) ==
    IF res.err.cause # NoError
    THEN IF res.err.cause \in spec.retryErrs THEN "retry" ELSE "error"
    ELSE IF res.label \in spec.target THEN "target"
    ELSE IF res.label \in spec.failure THEN "failure"
    ELSE IF res.label \in spec.pending THEN "pending"
    ELSE "unexpected"

\* an observed-but-unexpected label is tolerated this long after it was
\* first seen
GracePeriod == 4

BackoffMultiplier == 2

BackoffCap == 8

Floor(spec, interval) == Max(interval, spec.minTimeout)

FirstInterval(spec) == Floor(spec, spec.delay)

Grow(spec, interval) ==
    CASE spec.policy.kind = "none" -> interval
      [] spec.policy.kind = "linear" -> interval + FirstInterval(spec)
      [] OTHER -> interval * BackoffMultiplier

\* mutant: after the first interval the loop polls at MinTimeout
NextInterval_MinTimeout(spec, interval) == spec.minTimeout

\* growth stops at the cap; an interval already above it stays
NextInterval(spec, interval) ==
    IF interval >= BackoffCap
    THEN interval
    ELSE Floor(spec, Min(BackoffCap, Grow(spec, interval)))

\* the shortest sleep a jittered interval may come to: MinTimeout, and
\* under a growing policy the sleep before (section 8: intervals are
\* non-decreasing for linear/exponential policies, never below MinTimeout)
JitterFloor(w) ==
    IF w.spec.policy.kind = "none"
    THEN w.spec.minTimeout
    ELSE Max(w.spec.minTimeout, w.lastSleep)

\* the sleeps the loop may take next: the current interval, or with jitter
\* any value within a quarter of it, not below the floor
SleepChoices(w) ==
    IF w.spec.policy.jitter
    THEN { s \in (w.interval - (w.interval \div 4))..(w.interval + (w.interval \div 4)) :
             s >= JitterFloor(w) }
    ELSE { w.interval }

NoResult == [kind |-> "none", snap |-> NilSnap, label |-> "", err |-> NilErr]

NoResponse == [err |-> NoError, isNil |-> TRUE, items |-> <<>>]

\* mutant: Delay is slept before the first poll
NewWait_DelayFirst(spec) ==
    [spec |-> spec, state |-> "PENDING", pc |-> "poll", polls |-> 0,
     elapsed |-> spec.delay, lastPollAt |-> 0, interval |-> FirstInterval(spec),
     sleeps |-> IF spec.delay > 0 THEN 1 ELSE 0, lastSleep |-> spec.delay,
     pendingSeen |-> 0, otherSeen |-> 0,
     seenLabels |-> {}, lastClass |-> "none", lastResp |-> NoResponse,
     firstUnexpectedAt |-> -1, calls |-> NoCalls, result |-> NoResult]

\* a wait as Wait(refresh, spec) starts it: nothing polled, nothing slept.
\* pendingSeen counts the polls that saw a pending label, otherSeen those
\* that saw a label of no set or an error the wait retries on, seenLabels
\* holds the labels the polls returned without error, calls counts the
\* remote calls the wait has issued
NewWait(spec) ==
    [spec |-> spec, state |-> "PENDING", pc |-> "poll", polls |-> 0,
     elapsed |-> 0, lastPollAt |-> 0, interval |-> FirstInterval(spec),
     sleeps |-> 0, lastSleep |-> 0, pendingSeen |-> 0, otherSeen |-> 0,
     seenLabels |-> {}, lastClass |-> "none", lastResp |-> NoResponse,
     firstUnexpectedAt |-> -1, calls |-> NoCalls,
     result |-> NoResult]

Terminal(w) == w.state # "PENDING"

Return(w, state, result) ==
    [w EXCEPT !.state = state, !.pc = "returned", !.result = result]

\* mutant: the deadline counts as expired one refresh call too late
DeadlineExpired_Late(w) == w.elapsed > w.spec.timeout + MaxRefreshTime

DeadlineExpired(w) == w.elapsed >= w.spec.timeout

\* the refresh call is issued
StartPoll(w) ==
    [w EXCEPT !.pc = "refreshing", !.polls = @ + 1, !.lastPollAt = w.elapsed,
              !.calls = Issue(@, RefreshCalls(w.spec.refresh))]

\* keep waiting: out of time, or on to the sleep before the next poll
Continue(w, res) ==
    IF DeadlineExpired(w)
    THEN Return(w, "TIMED_OUT",
                [kind |-> "Timeout", snap |-> res.snap, label |-> res.label,
                 err |-> res.err])
    ELSE [w EXCEPT !.pc = "sleep"]

\* the refresh call answered resp after d seconds
Observe(w, resp, d) ==
    LET res == Refresh(w.spec.refresh, resp)
        class == Classify(w.spec, res)
        seen == [w EXCEPT !.elapsed = @ + d, !.lastResp = resp,
                          !.lastClass = class,
                          !.seenLabels = IF res.err = NilErr
                                         THEN @ \cup {res.label} ELSE @,
                          !.pendingSeen = IF class = "pending" THEN @ + 1 ELSE @,
                          !.otherSeen = IF class \in {"unexpected", "retry"}
                                        THEN @ + 1 ELSE @]
    IN  CASE class = "error" ->
                 Return(seen, "FAILED",
                        [kind |-> "RemoteError", snap |-> res.snap,
                         label |-> res.label, err |-> res.err])
          [] class = "target" ->
                 Return(seen, "DONE",
                        [kind |-> "Success", snap |-> res.snap,
                         label |-> res.label, err |-> NilErr])
          [] class = "failure" ->
                 Return(seen, "FAILED",
                        [kind |-> "RemoteError", snap |-> res.snap,
                         label |-> res.label, err |-> NilErr])
          [] class = "unexpected" ->
                 IF seen.firstUnexpectedAt < 0
                 THEN Continue([seen EXCEPT !.firstUnexpectedAt = seen.elapsed], res)
                 ELSE IF seen.elapsed - seen.firstUnexpectedAt > GracePeriod
                      THEN Return(seen, "FAILED",
                                  [kind |-> IF res.snap.kind = "entity"
                                            THEN "UnexpectedState" ELSE "NotFound",
                                   snap |-> res.snap, label |-> res.label,
                                   err |-> NilErr])
                      ELSE Continue(seen, res)
          [] OTHER -> Continue(seen, res)

LastResult(w) == Refresh(w.spec.refresh, w.lastResp)

\* mutant: the sleep does not watch the deadline
Slept_NoDeadline(w, s) ==
    [w EXCEPT !.elapsed = @ + s, !.sleeps = @ + 1, !.lastSleep = s,
              !.interval = NextInterval(w.spec, w.interval), !.pc = "poll"]

\* mutant: at the deadline the last snapshot is returned as the result
Slept_TimeoutReturnsLast(w, s) ==
    LET woke == [w EXCEPT !.elapsed = Min(@ + s, w.spec.timeout)]
    IN  IF DeadlineExpired(woke)
        THEN Return(woke, "DONE",
                    [kind |-> "Success", snap |-> LastResult(w).snap,
                     label |-> LastResult(w).label, err |-> NilErr])
        ELSE [woke EXCEPT !.sleeps = @ + 1, !.lastSleep = s,
                          !.interval = NextInterval(w.spec, w.interval),
                          !.pc = "poll"]

\* the sleep of s seconds ends, at the deadline if that comes first
Slept(w, s) ==
    LET woke == [w EXCEPT !.elapsed = Min(@ + s, w.spec.timeout)]
    IN  IF DeadlineExpired(woke)
        THEN Return(woke, "TIMED_OUT",
                    [kind |-> "Timeout", snap |-> LastResult(w).snap,
                     label |-> LastResult(w).label, err |-> LastResult(w).err])
        ELSE [woke EXCEPT !.sleeps = @ + 1, !.lastSleep = s,
                          !.interval = NextInterval(w.spec, w.interval),
                          !.pc = "poll"]

\* what the RDS wrappers return: nil when the wait succeeded, else an error
\* built around the wait's error
WaitError(w) == IF w.result.kind = "Success" THEN "nil" ELSE "error"

Canceled(w) ==
    Return(w, "CANCELED",
           [kind |-> "Canceled", snap |-> NilSnap, label |-> "", err |-> NilErr])

(***************************************************************************)
(* Actions.                                                                *)
(***************************************************************************)
\* a wait that was never started
NoWait == [state |-> "none"]

\* no handler is running
NoResourceData == [handler |-> "none"]

\* no permissions were listed
NoListing == [filter |-> "none"]

Init ==
    /\ wait \in { NewWait(spec) : spec \in WaitSpecs }
    /\ cancelled = FALSE
    /\ peer = NoWait
    /\ rd = NoResourceData
    /\ filt = NoListing

\* mutant: the loop polls without looking at the cancellation signal
Poll_IgnoresCancel ==
    /\ wait.state = "PENDING"
    /\ wait.pc = "poll"
    /\ ~DeadlineExpired(wait)
    /\ wait' = StartPoll(wait)
    /\ UNCHANGED <<cancelled, peer, rd, filt>>

Poll ==
    /\ wait.state = "PENDING"
    /\ wait.pc = "poll"
    /\ ~cancelled
    /\ ~DeadlineExpired(wait)
    /\ wait' = StartPoll(wait)
    /\ UNCHANGED <<cancelled, peer, rd, filt>>

RefreshReturns ==
    /\ wait.state = "PENDING"
    /\ wait.pc = "refreshing"
    /\ ~cancelled
    /\ \E resp \in ResponsesOf(wait.spec.refresh), d \in 0..MaxRefreshTime :
           wait' = Observe(wait, resp, d)
    /\ UNCHANGED <<cancelled, peer, rd, filt>>

Sleep ==
    /\ wait.state = "PENDING"
    /\ wait.pc = "sleep"
    /\ ~cancelled
    /\ \E s \in SleepChoices(wait) : wait' = Slept(wait, s)
    /\ UNCHANGED <<cancelled, peer, rd, filt>>

\* the caller cancels the wait
Cancel ==
    /\ wait.state = "PENDING"
    /\ ~cancelled
    /\ cancelled' = TRUE
    /\ UNCHANGED <<wait, peer, rd, filt>>

\* the loop notices the cancellation
OnCancel ==
    /\ wait.state = "PENDING"
    /\ cancelled
    /\ wait' = Canceled(wait)
    /\ UNCHANGED <<cancelled, peer, rd, filt>>

WaiterStep == Poll \/ RefreshReturns \/ Sleep \/ OnCancel

Next == Poll \/ RefreshReturns \/ Sleep \/ Cancel \/ OnCancel

Spec == Init /\ [][Next]_vars

\* the loop is one thread of control that keeps running until Wait returns,
\* and every refresh call answers (within MaxRefreshTime); the caller need
\* never cancel
FairSpec == Spec /\ WF_vars(WaiterStep)

(***************************************************************************)
(* Two waits side by side (specification, section 5): handlers of          *)
(* different resources each build their own wait and run its loop.         *)
(***************************************************************************)
QuickPolicy == [kind |-> "exponential", jitter |-> FALSE]

SteadyPolicy == [kind |-> "none", jitter |-> FALSE]

\* the waits that run side by side: the RDS creation wait beside the RDS
\* deletion wait of another endpoint, or waits on two EFS resources
ConcurrentWaitSpecs ==
    { s \in WaitSpecs :
        /\ s.policy = QuickPolicy
        /\ \/ s.name = "rdsWaitForAvailable" /\ s.timeout = 2
           \/ /\ s.name = "fileSystemCreated"
              /\ s.timeout = MaxShortTimeout /\ s.delay = 0 /\ s.minTimeout = 1 }

ConcurrentPeerSpecs ==
    { s \in WaitSpecs :
        /\ s.policy = SteadyPolicy
        /\ \/ s.name = "rdsWaitForDestroy" /\ s.timeout = 2
           \/ /\ s.name = "accessPointCreated"
              /\ s.timeout = 1 /\ s.delay = 0 /\ s.minTimeout = 1 }

ConcurrentInit ==
    /\ wait \in { NewWait(spec) : spec \in ConcurrentWaitSpecs }
    /\ cancelled = FALSE
    /\ peer \in { NewWait(spec) : spec \in ConcurrentPeerSpecs }
    /\ rd = NoResourceData
    /\ filt = NoListing

PeerPoll ==
    /\ peer.state = "PENDING"
    /\ peer.pc = "poll"
    /\ ~DeadlineExpired(peer)
    /\ peer' = StartPoll(peer)
    /\ UNCHANGED <<wait, cancelled, rd, filt>>

PeerRefreshReturns ==
    /\ peer.state = "PENDING"
    /\ peer.pc = "refreshing"
    /\ \E resp \in ResponsesOf(peer.spec.refresh), d \in 0..MaxRefreshTime :
           peer' = Observe(peer, resp, d)
    /\ UNCHANGED <<wait, cancelled, rd, filt>>

\* mutant: the two loops count their backoff in one shared counter
PeerSleep_SharedBackoff ==
    /\ peer.state = "PENDING"
    /\ peer.pc = "sleep"
    /\ \E s \in SleepChoices(peer) : peer' = Slept(peer, s)
    /\ wait' = IF wait.state = "PENDING"
               THEN [wait EXCEPT !.interval = NextInterval(wait.spec, @)]
               ELSE wait
    /\ UNCHANGED <<cancelled, rd, filt>>

PeerSleep ==
    /\ peer.state = "PENDING"
    /\ peer.pc = "sleep"
    /\ \E s \in SleepChoices(peer) : peer' = Slept(peer, s)
    /\ UNCHANGED <<wait, cancelled, rd, filt>>

ConcurrentNext ==
    \/ Poll \/ RefreshReturns \/ Sleep \/ Cancel \/ OnCancel
    \/ PeerPoll \/ PeerRefreshReturns \/ PeerSleep

ConcurrentSpec == ConcurrentInit /\ [][ConcurrentNext]_vars

(***************************************************************************)
(* Resource handlers: create of the route table association               *)
(* (ec2/table_association.go), of the RDS cluster endpoint                *)
(* (rds/cluster_endpoint.go) and of the transit gateway route table       *)
(* propagation, and update of the route table association.  A handler     *)
(* runs step by step: remote call, wait, read; rd.log lists the steps it  *)
(* has run, rd.err is what it returned ("" while it is running).          *)
(***************************************************************************)
errCodeInvalidRouteTableIDNotFound == "InvalidRouteTableID.NotFound"

errCodeInvalidAssociationIDNotFound == "InvalidAssociationID.NotFound"

\* calls of AssociateRouteTable that RetryWhenAwsErrCodeEquals has time for
\* within routeTableAssociationPropagationTimeout
MaxAttempts == 2

\* 30 minutes in the code; here the largest timeout of the model
AWSRDSClusterEndpointCreateTimeout == MaxTimeout

\* an import ID as the runs of characters between its "/" and the "/"
\* themselves; strings.Split(s, "/") gives the runs between the separators,
\* empty ones included
RECURSIVE Split(_)
Split(tokens) ==
    IF tokens = <<>>
    THEN <<"">>
    ELSE IF Head(tokens) = "/"
         THEN <<"">> \o Split(Tail(tokens))
         ELSE LET rest == Split(Tail(tokens))
              IN  <<Head(tokens) \o Head(rest)>> \o Tail(rest)

\* the import ID as the string d.Id() returns
RECURSIVE Join(_)
Join(tokens) == IF tokens = <<>> THEN "" ELSE Head(tokens) \o Join(Tail(tokens))

ImportIds ==
    { <<"subnet-1", "/", "rtb-1">>, <<"igw-1", "/", "rtb-1">>,
      <<"subnet-2", "/", "rtb-1">>, <<"subnet-1", "/", "rtb-9">>,
      <<"subnet-1">>, <<"subnet-1", "/", "rtb-1", "/", "x">>,
      <<"/", "rtb-1">>, <<"subnet-1", "/">> }

\* most associations a route table of the model has
MaxAssociations == 2

\* the associations route table rtb-1 can have, a nil SubnetId or GatewayId
\* read as "" (aws.StringValue): the main association, which has neither,
\* two of subnet-1 and one of gateway igw-1
RouteTables ==
    LET associations ==
            { [id |-> "rtbassoc-main", subnet |-> "", gateway |-> ""],
              [id |-> "rtbassoc-s1", subnet |-> "subnet-1", gateway |-> ""],
              [id |-> "rtbassoc-s2", subnet |-> "subnet-1", gateway |-> ""],
              [id |-> "rtbassoc-g1", subnet |-> "", gateway |-> "igw-1"] }
    IN  UNION { [1..n -> associations] : n \in 0..MaxAssociations }

\* the answer of findRouteTableByID: route table rtb-1 with its associations,
\* or an error when the call fails or the route table does not exist
findRouteTableByID(config, routeTableID) ==
    IF routeTableID = "rtb-1" /\ config.err = NoError
    THEN [err |-> NoError, associations |-> config.associations]
    ELSE [err |-> IF routeTableID = "rtb-1" THEN config.err ELSE ErrNotFound,
          associations |-> <<>>]

CreateHandlers ==
    {"resourceAwsRouteTableAssociationCreate",
     "resourceAwsRDSClusterEndpointCreate",
     "resourceAwsEc2TransitGatewayRouteTablePropagationCreate"}

\* the reads the framework also calls on their own, to refresh the state
ReadHandlers ==
    {"resourceAwsRouteTableAssociationRead",
     "resourceAwsEc2TransitGatewayRouteTablePropagationRead"}

DeleteHandlers ==
    {"resourceAwsRouteTableAssociationDelete",
     "resourceAwsCloudWatchEventBusDelete",
     "resourceAwsEmrSecurityConfigurationDelete",
     "resourceAwsEc2TransitGatewayRouteTablePropagationDelete"}

Handlers ==
    CreateHandlers \cup {"resourceAwsRouteTableAssociationUpdate"} \cup ReadHandlers
        \cup DeleteHandlers \cup {"resourceAwsRouteTableAssociationImport"}

\* the configuration a handler reads with d.Get
ConfigsOf(handler) ==
    CASE handler = "resourceAwsRDSClusterEndpointCreate" ->
             [cluster_endpoint_identifier : {"endpoint-1", "endpoint-2"}]
      [] handler \in {"resourceAwsEc2TransitGatewayRouteTablePropagationCreate",
                      "resourceAwsEc2TransitGatewayRouteTablePropagationRead"} ->
             [transit_gateway_attachment_id : {"tgw-attach-1"},
              transit_gateway_route_table_id : {"tgw-rtb-1", "tgw-rtb-2"}]
      [] handler = "resourceAwsRouteTableAssociationImport" ->
             [import_id : ImportIds, err : {NoError}, associations : RouteTables]
                 \cup [import_id : ImportIds, err : {ErrNotFound, ErrOther},
                       associations : {<<>>}]
      [] OTHER -> [route_table_id : {"rtb-1", "rtb-2"}]

\* the ID the resource has when the handler is called: none before a
\* create, the association's or the propagation's otherwise
PriorIdOf(handler) ==
    CASE handler \in CreateHandlers -> ""
      [] handler \in {"resourceAwsEc2TransitGatewayRouteTablePropagationRead",
                      "resourceAwsEc2TransitGatewayRouteTablePropagationDelete"} ->
             "tgw-rtb-1_tgw-attach-1"
      [] handler = "resourceAwsCloudWatchEventBusDelete" -> "bus-1"
      [] handler = "resourceAwsEmrSecurityConfigurationDelete" -> "security-configuration-1"
      [] OTHER -> "rtbassoc-1"

\* the resource data as the framework hands it to a handler
NewResourceData(handler, config, isNew) ==
    [handler |-> handler, running |-> handler,
     pc |-> CASE handler \in ReadHandlers -> "read"
              [] handler = "resourceAwsRouteTableAssociationImport" -> "import"
              [] OTHER -> "call",
     config |-> config,
     id |-> IF handler = "resourceAwsRouteTableAssociationImport"
            THEN Join(config.import_id) ELSE PriorIdOf(handler),
     priorId |-> IF handler = "resourceAwsRouteTableAssociationImport"
                 THEN Join(config.import_id) ELSE PriorIdOf(handler),
     isNew |-> isNew, attempts |-> 0, log |-> <<>>,
     callErr |-> "", replaceErr |-> "", waitErr |-> "", readOut |-> "",
     attrs |-> "config", err |-> ""]

Logged(d, step) == [d EXCEPT !.log = Append(@, step)]

SetId(d, id) == [Logged(d, "SetId") EXCEPT !.id = id]

ReturnError(d, msg) == [d EXCEPT !.pc = "done", !.err = msg]

ReturnNil(d) == [d EXCEPT !.pc = "done", !.err = NoError]

\* what the find / describe call of a read can answer
ReadOutcomes(running) ==
    CASE running = "resourceAwsRDSClusterEndpointCreate" ->
             {"found", "error", "nilresp", "notlisted", "tagserror"}
      [] running \in {"resourceAwsEc2TransitGatewayRouteTablePropagationCreate",
                      "resourceAwsEc2TransitGatewayRouteTablePropagationRead"} ->
             {"found", "error", "rtnotfound", "nil"}
      [] OTHER -> {"found", "error", "notfound"}

resourceAwsRouteTableAssociationRead(d, out) ==
    LET r == [Logged(d, "resourceAwsRouteTableAssociationRead")
                EXCEPT !.readOut = out]
    IN  IF ~d.isNew /\ out = "notfound"
        THEN ReturnNil(SetId(r, ""))
        ELSE IF out # "found"
             THEN ReturnError(r, "error reading Route Table Association")
             ELSE ReturnNil([r EXCEPT !.attrs = "read"])

resourceAwsRDSClusterEndpointRead(d, out) ==
    LET r == [Logged(d, "resourceAwsRDSClusterEndpointRead")
                EXCEPT !.readOut = out]
    IN  CASE out = "error" ->
                 ReturnError(r, "error describing RDS Cluster Endpoints")
          [] out = "nilresp" ->
                 ReturnError(r, "Error retrieving RDS Cluster Endpoints: empty response")
          [] out = "notlisted" -> ReturnNil(SetId(r, ""))
          [] out = "tagserror" ->
                 ReturnError([r EXCEPT !.attrs = "read"], "error listing tags")
          [] OTHER -> ReturnNil([r EXCEPT !.attrs = "read"])

resourceAwsEc2TransitGatewayRouteTablePropagationRead(d, out) ==
    LET r == [Logged(d, "resourceAwsEc2TransitGatewayRouteTablePropagationRead")
                EXCEPT !.readOut = out]
    IN  IF ~d.isNew /\ out = "rtnotfound"
        THEN ReturnNil(SetId(r, ""))
        ELSE IF out \in {"error", "rtnotfound"}
             THEN ReturnError(r, "error reading EC2 Transit Gateway Route Table Propagation")
             ELSE IF out = "nil"
                  THEN IF d.isNew
                       THEN ReturnError(r, "not found after creation")
                       ELSE ReturnNil(SetId(r, ""))
                  ELSE ReturnNil([r EXCEPT !.attrs = "read"])

\* an outcome of the step a handler waits on: the error of the remote call
\* or of the wait, the ID the remote call assigned, the answer of the read
Outcome(err, id, read) == [err |-> err, id |-> id, read |-> read]

\* mutant: the association ID is taken from the output before the error of
\* the call is looked at
resourceAwsRouteTableAssociationCreate_SetIdFirst(d, out) ==
    CASE d.pc = "call" ->
             LET c == [Logged(d, "AssociateRouteTable")
                         EXCEPT !.attempts = @ + 1, !.callErr = out.err]
             IN  IF out.err = errCodeInvalidRouteTableIDNotFound
                        /\ c.attempts < MaxAttempts
                 THEN c
                 ELSE IF out.err # NoError
                      THEN ReturnError(SetId(c, "rtbassoc-0"),
                                       "error creating Route Table Association")
                      ELSE [SetId(c, out.id) EXCEPT !.pc = "wait"]
      [] d.pc = "wait" ->
             LET w == [Logged(d, "waitRouteTableAssociationCreated")
                         EXCEPT !.waitErr = out.err]
             IN  IF out.err # NoError
                 THEN ReturnError(w, "error waiting for Route Table Association create")
                 ELSE [w EXCEPT !.pc = "read"]
      [] OTHER -> resourceAwsRouteTableAssociationRead(d, out.read)

\* AssociateRouteTable, retried while it answers that the route table does
\* not exist; SetId; waitRouteTableAssociationCreated; read
resourceAwsRouteTableAssociationCreate(d, out) ==
    CASE d.pc = "call" ->
             LET c == [Logged(d, "AssociateRouteTable")
                         EXCEPT !.attempts = @ + 1, !.callErr = out.err]
             IN  IF out.err = errCodeInvalidRouteTableIDNotFound
                        /\ c.attempts < MaxAttempts
                 THEN c
                 ELSE IF out.err # NoError
                      THEN ReturnError(c, "error creating Route Table Association")
                      ELSE [SetId(c, out.id) EXCEPT !.pc = "wait"]
      [] d.pc = "wait" ->
             LET w == [Logged(d, "waitRouteTableAssociationCreated")
                         EXCEPT !.waitErr = out.err]
             IN  IF out.err # NoError
                 THEN ReturnError(w, "error waiting for Route Table Association create")
                 ELSE [w EXCEPT !.pc = "read"]
      [] OTHER -> resourceAwsRouteTableAssociationRead(d, out.read)

\* CreateDBClusterEndpoint; SetId; resourceAwsRDSClusterEndpointWaitForAvailable,
\* which runs the poll loop ("waiting") and whose error is returned as it
\* is; read
resourceAwsRDSClusterEndpointCreate(d, out) ==
    CASE d.pc = "call" ->
             LET c == [Logged(d, "CreateDBClusterEndpoint") EXCEPT !.callErr = out.err]
             IN  IF out.err # NoError
                 THEN ReturnError(c, "Error creating RDS Cluster Endpoint")
                 ELSE [SetId(c, d.config.cluster_endpoint_identifier)
                         EXCEPT !.pc = "wait"]
      [] d.pc = "wait" ->
             [Logged(d, "resourceAwsRDSClusterEndpointWaitForAvailable")
                EXCEPT !.pc = "waiting"]
      [] d.pc = "waiting" ->
             IF out.err # NoError
             THEN ReturnError([d EXCEPT !.waitErr = out.err], out.err)
             ELSE [d EXCEPT !.waitErr = out.err, !.pc = "read"]
      [] OTHER -> resourceAwsRDSClusterEndpointRead(d, out.read)

\* EnableTransitGatewayRouteTablePropagation; SetId("<route table>_<attachment>");
\* waitTransitGatewayRouteTablePropagationStateEnabled; read
resourceAwsEc2TransitGatewayRouteTablePropagationCreate(d, out) ==
    CASE d.pc = "call" ->
             LET c == [Logged(d, "EnableTransitGatewayRouteTablePropagation")
                         EXCEPT !.callErr = out.err]
             IN  IF out.err # NoError
                 THEN ReturnError(c, "error enabling EC2 Transit Gateway Route Table propagation")
                 ELSE [SetId(c, d.config.transit_gateway_route_table_id \o "_"
                                   \o d.config.transit_gateway_attachment_id)
                         EXCEPT !.pc = "wait"]
      [] d.pc = "wait" ->
             LET w == [Logged(d, "waitTransitGatewayRouteTablePropagationStateEnabled")
                         EXCEPT !.waitErr = out.err]
             IN  IF out.err # NoError
                 THEN ReturnError(w, "error waiting for EC2 Transit Gateway Route Table propagation to enable")
                 ELSE [w EXCEPT !.pc = "read"]
      [] OTHER -> resourceAwsEc2TransitGatewayRouteTablePropagationRead(d, out.read)

\* mutant: an association that is not found is an error like any other
resourceAwsRouteTableAssociationUpdate_NotFoundIsError(d, out) ==
    IF d.running = "resourceAwsRouteTableAssociationCreate"
    THEN resourceAwsRouteTableAssociationCreate(d, out)
    ELSE CASE d.pc = "call" ->
                  LET c == [Logged(d, "ReplaceRouteTableAssociation")
                              EXCEPT !.callErr = out.err, !.replaceErr = out.err]
                  IN  IF out.err # NoError
                      THEN ReturnError(c, "error updating Route Table Association")
                      ELSE [SetId(c, out.id) EXCEPT !.pc = "wait"]
           [] d.pc = "wait" ->
                  LET w == [Logged(d, "waitRouteTableAssociationUpdated")
                              EXCEPT !.waitErr = out.err]
                  IN  IF out.err # NoError
                      THEN ReturnError(w, "error waiting for Route Table Association update")
                      ELSE [w EXCEPT !.pc = "read"]
           [] OTHER -> resourceAwsRouteTableAssociationRead(d, out.read)

\* ReplaceRouteTableAssociation; when the association is not found, the
\* create handler runs in its place; else SetId(NewAssociationId);
\* waitRouteTableAssociationUpdated; read
resourceAwsRouteTableAssociationUpdate(d, out) ==
    IF d.running = "resourceAwsRouteTableAssociationCreate"
    THEN resourceAwsRouteTableAssociationCreate(d, out)
    ELSE CASE d.pc = "call" ->
                  LET c == [Logged(d, "ReplaceRouteTableAssociation")
                              EXCEPT !.callErr = out.err, !.replaceErr = out.err]
                  IN  IF out.err = errCodeInvalidAssociationIDNotFound
                      THEN [c EXCEPT !.running = "resourceAwsRouteTableAssociationCreate"]
                      ELSE IF out.err # NoError
                           THEN ReturnError(c, "error updating Route Table Association")
                           ELSE [SetId(c, out.id) EXCEPT !.pc = "wait"]
           [] d.pc = "wait" ->
                  LET w == [Logged(d, "waitRouteTableAssociationUpdated")
                              EXCEPT !.waitErr = out.err]
                  IN  IF out.err # NoError
                      THEN ReturnError(w, "error waiting for Route Table Association update")
                      ELSE [w EXCEPT !.pc = "read"]
           [] OTHER -> resourceAwsRouteTableAssociationRead(d, out.read)

\* mutant: an association that is not found is waited for like one that
\* was disassociated
ec2RouteTableAssociationDelete_NotFoundWaits(d, out) ==
    IF d.pc = "call"
    THEN LET c == [Logged(d, "DisassociateRouteTable") EXCEPT !.callErr = out.err]
         IN  IF out.err \notin {NoError, errCodeInvalidAssociationIDNotFound}
             THEN ReturnError(c, "error deleting Route Table Association")
             ELSE [c EXCEPT !.pc = "wait"]
    ELSE LET w == [Logged(d, "waitRouteTableAssociationDeleted")
                     EXCEPT !.waitErr = out.err]
         IN  IF out.err # NoError
             THEN ReturnError(w, "error waiting for Route Table Association delete")
             ELSE ReturnNil(w)

\* resourceAwsRouteTableAssociationDelete is this function on d.Id():
\* DisassociateRouteTable; nil when the association is not found;
\* waitRouteTableAssociationDeleted
ec2RouteTableAssociationDelete(d, out) ==
    IF d.pc = "call"
    THEN LET c == [Logged(d, "DisassociateRouteTable") EXCEPT !.callErr = out.err]
         IN  IF out.err = errCodeInvalidAssociationIDNotFound
             THEN ReturnNil(c)
             ELSE IF out.err # NoError
                  THEN ReturnError(c, "error deleting Route Table Association")
                  ELSE [c EXCEPT !.pc = "wait"]
    ELSE LET w == [Logged(d, "waitRouteTableAssociationDeleted")
                     EXCEPT !.waitErr = out.err]
         IN  IF out.err # NoError
             THEN ReturnError(w, "error waiting for Route Table Association delete")
             ELSE ReturnNil(w)

\* DeleteEventBus; nil when the bus is not found; no wait
resourceAwsCloudWatchEventBusDelete(d, out) ==
    LET c == [Logged(d, "DeleteEventBus") EXCEPT !.callErr = out.err]
    IN  IF out.err = "ResourceNotFoundException"
        THEN ReturnNil(c)
        ELSE IF out.err # NoError
             THEN ReturnError(c, "Error deleting CloudWatch Events event bus")
             ELSE ReturnNil(c)

\* DeleteSecurityConfiguration; nil when the error is an
\* InvalidRequestException whose message has "does not exist", the error
\* itself otherwise; no wait
resourceAwsEmrSecurityConfigurationDelete(d, out) ==
    LET c == [Logged(d, "DeleteSecurityConfiguration") EXCEPT !.callErr = out.err]
    IN  IF out.err # NoError
        THEN IF out.err = "InvalidRequestException: Security configuration does not exist"
             THEN ReturnNil(c)
             ELSE ReturnError(c, out.err)
        ELSE ReturnNil(c)

\* DisableTransitGatewayRouteTablePropagation; nil when the route table is
\* not found; waitTransitGatewayRouteTablePropagationStateDisabled
resourceAwsEc2TransitGatewayRouteTablePropagationDelete(d, out) ==
    IF d.pc = "call"
    THEN LET c == [Logged(d, "DisableTransitGatewayRouteTablePropagation")
                     EXCEPT !.callErr = out.err]
         IN  IF out.err = errCodeInvalidRouteTableIDNotFound
             THEN ReturnNil(c)
             ELSE IF out.err # NoError
                  THEN ReturnError(c, "error disabling EC2 Transit Gateway Route Table Propagation")
                  ELSE [c EXCEPT !.pc = "wait"]
    ELSE LET w == [Logged(d, "waitTransitGatewayRouteTablePropagationStateDisabled")
                     EXCEPT !.waitErr = out.err]
         IN  IF out.err # NoError
             THEN ReturnError(w, "error waiting for EC2 Transit Gateway Route Table propagation to disable")
             ELSE ReturnNil(w)

\* the import ID is split at "/"; with two parts, target and route table,
\* the route table is looked up and its associations are gone through in
\* order up to the first whose SubnetId, or else whose GatewayId, read with
\* aws.StringValue, equals the target; its association ID becomes the
\* resource ID
resourceAwsRouteTableAssociationImport(d) ==
    LET parts == Split(d.config.import_id)
    IN  IF Len(parts) # 2
        THEN ReturnError(d, "Unexpected format for import")
        ELSE LET targetID == parts[1]
                 routeTableID == parts[2]
                 routeTable == findRouteTableByID(d.config, routeTableID)
                 f == [Logged(d, "findRouteTableByID") EXCEPT !.callErr = routeTable.err]
                 matching == { i \in DOMAIN routeTable.associations :
                                 \/ routeTable.associations[i].subnet = targetID
                                 \/ routeTable.associations[i].gateway = targetID }
             IN  IF routeTable.err # NoError
                 THEN ReturnError(f, routeTable.err)
                 ELSE IF matching = {}
                      THEN ReturnError(f, "No association found")
                      ELSE LET association ==
                                   routeTable.associations[
                                       CHOOSE i \in matching : \A j \in matching : i <= j]
                           IN  IF association.id = ""
                               THEN ReturnError(f, "No association found")
                               ELSE ReturnNil(
                                        [SetId(f, association.id) EXCEPT
                                            !.attrs =
                                                [subnet_id |-> IF association.subnet = targetID
                                                               THEN targetID ELSE "",
                                                 gateway_id |-> IF association.subnet = targetID
                                                                THEN "" ELSE targetID,
                                                 route_table_id |-> routeTableID]])

\* the handler the framework called, at its next step
HandlerStep(d, out) ==
    CASE d.handler = "resourceAwsRouteTableAssociationCreate" ->
             resourceAwsRouteTableAssociationCreate(d, out)
      [] d.handler = "resourceAwsRDSClusterEndpointCreate" ->
             resourceAwsRDSClusterEndpointCreate(d, out)
      [] d.handler = "resourceAwsEc2TransitGatewayRouteTablePropagationCreate" ->
             resourceAwsEc2TransitGatewayRouteTablePropagationCreate(d, out)
      [] d.handler = "resourceAwsRouteTableAssociationRead" ->
             resourceAwsRouteTableAssociationRead(d, out.read)
      [] d.handler = "resourceAwsRouteTableAssociationDelete" ->
             ec2RouteTableAssociationDelete(d, out)
      [] d.handler = "resourceAwsCloudWatchEventBusDelete" ->
             resourceAwsCloudWatchEventBusDelete(d, out)
      [] d.handler = "resourceAwsEmrSecurityConfigurationDelete" ->
             resourceAwsEmrSecurityConfigurationDelete(d, out)
      [] d.handler = "resourceAwsEc2TransitGatewayRouteTablePropagationDelete" ->
             resourceAwsEc2TransitGatewayRouteTablePropagationDelete(d, out)
      [] d.handler = "resourceAwsEc2TransitGatewayRouteTablePropagationRead" ->
             resourceAwsEc2TransitGatewayRouteTablePropagationRead(d, out.read)
      [] OTHER -> resourceAwsRouteTableAssociationUpdate(d, out)

\* the answers of the remote call a handler issues
CallOutcomes(d) ==
    CASE d.running = "resourceAwsRouteTableAssociationCreate" ->
             { Outcome(NoError, "rtbassoc-2", "") }
                 \cup { Outcome(e, "", "") :
                          e \in {errCodeInvalidRouteTableIDNotFound, ErrOther} }
      [] d.running = "resourceAwsRouteTableAssociationUpdate" ->
             { Outcome(NoError, "rtbassoc-3", "") }
                 \cup { Outcome(e, "", "") :
                          e \in {errCodeInvalidAssociationIDNotFound, ErrOther} }
      [] d.running = "resourceAwsRouteTableAssociationDelete" ->
             { Outcome(e, "", "") :
                 e \in {NoError, errCodeInvalidAssociationIDNotFound, ErrOther} }
      [] d.running = "resourceAwsCloudWatchEventBusDelete" ->
             { Outcome(e, "", "") :
                 e \in {NoError, "ResourceNotFoundException", ErrOther} }
      [] d.running = "resourceAwsEmrSecurityConfigurationDelete" ->
             { Outcome(e, "", "") :
                 e \in {NoError,
                        "InvalidRequestException: Security configuration does not exist",
                        "InvalidRequestException: Name is not valid", ErrOther} }
      [] d.running = "resourceAwsEc2TransitGatewayRouteTablePropagationDelete" ->
             { Outcome(e, "", "") :
                 e \in {NoError, errCodeInvalidRouteTableIDNotFound, ErrOther} }
      [] OTHER -> { Outcome(e, "", "") : e \in {NoError, ErrOther} }

\* the wait functions of the EC2 handlers either succeed or return an error
WaitErrors == {NoError, "error"}

\* the framework marks the resource new before it calls Create, and only
\* then: d.IsNewResource() is false in an Update or a Read it calls
HandlerInit ==
    /\ rd \in UNION { { NewResourceData(h, c, h \in CreateHandlers) :
                          c \in ConfigsOf(h) } : h \in Handlers }
    /\ wait = NoWait
    /\ cancelled = FALSE
    /\ peer = NoWait
    /\ filt = NoListing

Running(d) == d.handler # "none" /\ d.pc # "done"

\* the remote call of the handler answers
CallReturns ==
    /\ Running(rd)
    /\ rd.pc = "call"
    /\ \E out \in CallOutcomes(rd) : rd' = HandlerStep(rd, out)
    /\ UNCHANGED <<wait, cancelled, peer, filt>>

\* the wait function of an EC2 handler is called and returns
WaitReturns ==
    /\ Running(rd)
    /\ rd.pc = "wait"
    /\ rd.running # "resourceAwsRDSClusterEndpointCreate"
    /\ \E e \in WaitErrors : rd' = HandlerStep(rd, Outcome(e, "", ""))
    /\ UNCHANGED <<wait, cancelled, peer, filt>>

\* the RDS handler calls resourceAwsRDSClusterEndpointWaitForAvailable, which
\* starts the poll loop
WaitStarts ==
    /\ Running(rd)
    /\ rd.pc = "wait"
    /\ rd.running = "resourceAwsRDSClusterEndpointCreate"
    /\ rd' = HandlerStep(rd, Outcome(NoError, "", ""))
    /\ wait' = NewWait(Defaults(
                   resourceAwsRDSClusterEndpointWaitForAvailable(
                       AWSRDSClusterEndpointCreateTimeout),
                   SteadyPolicy))
    /\ UNCHANGED <<cancelled, peer, filt>>

\* the poll loop has returned to resourceAwsRDSClusterEndpointWaitForAvailable
WaitEnds ==
    /\ Running(rd)
    /\ rd.pc = "waiting"
    /\ Terminal(wait)
    /\ rd' = HandlerStep(rd, Outcome(WaitError(wait), "", ""))
    /\ UNCHANGED <<wait, cancelled, peer, filt>>

\* the find / describe call of the read answers
ReadReturns ==
    /\ Running(rd)
    /\ rd.pc = "read"
    /\ \E r \in ReadOutcomes(rd.running) : rd' = HandlerStep(rd, Outcome(NoError, "", r))
    /\ UNCHANGED <<wait, cancelled, peer, filt>>

\* the import handler runs, its lookup of the route table included
ImportReturns ==
    /\ Running(rd)
    /\ rd.pc = "import"
    /\ rd' = resourceAwsRouteTableAssociationImport(rd)
    /\ UNCHANGED <<wait, cancelled, peer, filt>>

HandlerNext ==
    \/ CallReturns \/ WaitReturns \/ WaitStarts \/ WaitEnds \/ ReadReturns
    \/ ImportReturns
    \/ Poll \/ RefreshReturns \/ Sleep

HandlerSpec == HandlerInit /\ [][HandlerNext]_vars

(***************************************************************************)
(* Lake Formation permissions (lakeformation/filter.go).  ListPermissions *)
(* answers with entries (principal, resource, permissions, permissions    *)
(* with grant option); the resource of an entry is of one kind.  A nil    *)
(* string reads as "" (aws.StringValue).                                  *)
(***************************************************************************)
tableNameAllTables == "ALL_TABLES"

PermissionSelect == "SELECT"

tableTypeTable == "Table"

tableTypeTableWithColumns == "TableWithColumns"

\* longest listing the filter is given
MaxListed == 2

\* the columns of a TableWithColumns resource: ColumnWildcard set or not,
\* its ExcludedColumnNames nil or a list, ColumnNames nil or a list
NoColumns ==
    [wildcard |-> FALSE, excludedNil |-> TRUE, excluded |-> <<>>,
     namesNil |-> TRUE, names |-> <<>>]

ColumnWildcard == [NoColumns EXCEPT !.wildcard = TRUE]

ColumnWildcardExcept(excluded) ==
    [NoColumns EXCEPT !.wildcard = TRUE, !.excludedNil = FALSE,
                      !.excluded = excluded]

ColumnNames(names) == [NoColumns EXCEPT !.namesNil = FALSE, !.names = names]

PrincipalResourcePermissions(principal, kind, db, name, tableWildcard, cols, permissions, grantable) ==
    [principal |-> principal, kind |-> kind, db |-> db, name |-> name,
     tableWildcard |-> tableWildcard, cols |-> cols,
     permissions |-> permissions, grantable |-> grantable]

\* a grant on a table (or on all tables of a database) whose permissions
\* include SELECT comes back as two entries: the other permissions on the
\* Table, and SELECT on a TableWithColumns with ColumnWildcard
ListedAs(grant) ==
    LET name == IF grant.tableWildcard THEN tableNameAllTables ELSE grant.name
    IN  << PrincipalResourcePermissions(grant.principal, "Table", grant.db, name,
               grant.tableWildcard, NoColumns,
               SelectSeq(grant.permissions, LAMBDA p : p # PermissionSelect),
               SelectSeq(grant.grantable, LAMBDA p : p # PermissionSelect)),
           PrincipalResourcePermissions(grant.principal, "TableWithColumns",
               grant.db, name, FALSE, ColumnWildcard,
               <<PermissionSelect>>,
               SelectSeq(grant.grantable, LAMBDA p : p = PermissionSelect)) >>

FirstIs(list, permission) == Len(list) > 0 /\ list[1] = permission

\* mutant: only the permissions are looked at, not the permissions with
\* grant option
filterTablePermissions_IgnoresGrantOption(principal, table, allPermissions) ==
    LET Clean(perm) ==
            /\ principal = perm.principal
            /\ \/ /\ perm.kind = "TableWithColumns"
                  /\ perm.cols.wildcard
                  /\ \/ perm.name = table.name
                     \/ table.tableWildcard /\ perm.name = tableNameAllTables
                  /\ FirstIs(perm.permissions, PermissionSelect)
               \/ /\ perm.kind = "Table"
                  /\ perm.db = table.db
                  /\ \/ perm.name = table.name
                     \/ perm.tableWildcard /\ table.tableWildcard
    IN  SelectSeq(allPermissions, Clean)

\* the loop appends, in the order of the listing, the entries of the
\* principal that are a TableWithColumns with ColumnWildcard of the table's
\* name (of ALL_TABLES under a table wildcard) whose first permission or
\* first permission with grant option is SELECT, or a Table of the same
\* database with the table's name or, like the request, a table wildcard
filterTablePermissions(principal, table, allPermissions) ==
    LET Clean(perm) ==
            /\ principal = perm.principal
            /\ \/ /\ perm.kind = "TableWithColumns"
                  /\ perm.cols.wildcard
                  /\ \/ perm.name = table.name
                     \/ table.tableWildcard /\ perm.name = tableNameAllTables
                  /\ \/ FirstIs(perm.permissions, PermissionSelect)
                     \/ FirstIs(perm.grantable, PermissionSelect)
               \/ /\ perm.kind = "Table"
                  /\ perm.db = table.db
                  /\ \/ perm.name = table.name
                     \/ perm.tableWildcard /\ table.tableWildcard
    IN  SelectSeq(allPermissions, Clean)

\* both lists have the same length and, sorted, the same elements
stringSlicesEqualIgnoreOrder(s1, s2) ==
    /\ Len(s1) = Len(s2)
    /\ \A x \in {s1[i] : i \in DOMAIN s1} \cup {s2[i] : i \in DOMAIN s2} :
           Cardinality({ i \in DOMAIN s1 : s1[i] = x })
               = Cardinality({ i \in DOMAIN s2 : s2[i] = x })

filterTableWithColumnsPermissions(principal, twc, columnNames, excludedColumnNames, columnWildcard, allPermissions) ==
    LET Clean(perm) ==
            /\ principal = perm.principal
            /\ \/ /\ perm.kind = "TableWithColumns"
                  /\ ~perm.cols.namesNil
                  /\ stringSlicesEqualIgnoreOrder(perm.cols.names, columnNames)
               \/ /\ perm.kind = "TableWithColumns"
                  /\ perm.cols.wildcard
                  /\ (columnWildcard \/ Len(excludedColumnNames) > 0)
                  /\ \/ perm.cols.excludedNil /\ Len(excludedColumnNames) = 0
                     \/ /\ Len(excludedColumnNames) > 0
                        /\ stringSlicesEqualIgnoreOrder(perm.cols.excluded,
                                                        excludedColumnNames)
               \/ /\ perm.kind = "Table"
                  /\ perm.name = twc.name
    IN  SelectSeq(allPermissions, Clean)

filterCatalogPermissions(principal, allPermissions) ==
    SelectSeq(allPermissions,
              LAMBDA perm : principal = perm.principal /\ perm.kind = "Catalog")

filterDataLocationPermissions(principal, allPermissions) ==
    SelectSeq(allPermissions,
              LAMBDA perm : principal = perm.principal /\ perm.kind = "DataLocation")

filterDatabasePermissions(principal, allPermissions) ==
    SelectSeq(allPermissions,
              LAMBDA perm : principal = perm.principal /\ perm.kind = "Database")

\* mutant: a Database in the request is looked at before a Catalog
filterPermissions_DatabaseFirst(input, tableType, columnNames, excludedColumnNames, columnWildcard, allPermissions) ==
    IF "Database" \in input.resource.kinds
    THEN filterDatabasePermissions(input.principal, allPermissions)
    ELSE IF "Catalog" \in input.resource.kinds
    THEN filterCatalogPermissions(input.principal, allPermissions)
    ELSE IF "DataLocation" \in input.resource.kinds
    THEN filterDataLocationPermissions(input.principal, allPermissions)
    ELSE IF tableType = tableTypeTableWithColumns
    THEN filterTableWithColumnsPermissions(input.principal, input.resource.table,
             columnNames, excludedColumnNames, columnWildcard, allPermissions)
    ELSE IF "Table" \in input.resource.kinds \/ tableType = tableTypeTable
    THEN filterTablePermissions(input.principal, input.resource.table,
                                allPermissions)
    ELSE <<>>

\* input.resource.kinds: which of Catalog, DataLocation, Database and Table
\* are set in input.Resource; nil is returned as the empty list
filterPermissions(input, tableType, columnNames, excludedColumnNames, columnWildcard, allPermissions) ==
    IF "Catalog" \in input.resource.kinds
    THEN filterCatalogPermissions(input.principal, allPermissions)
    ELSE IF "DataLocation" \in input.resource.kinds
    THEN filterDataLocationPermissions(input.principal, allPermissions)
    ELSE IF "Database" \in input.resource.kinds
    THEN filterDatabasePermissions(input.principal, allPermissions)
    ELSE IF tableType = tableTypeTableWithColumns
    THEN filterTableWithColumnsPermissions(input.principal, input.resource.table,
             columnNames, excludedColumnNames, columnWildcard, allPermissions)
    ELSE IF "Table" \in input.resource.kinds \/ tableType = tableTypeTable
    THEN filterTablePermissions(input.principal, input.resource.table,
                                allPermissions)
    ELSE <<>>

(***************************************************************************)
(* The listings and requests the filter is exercised on.                   *)
(***************************************************************************)
TableEntry(principal, db, name) ==
    PrincipalResourcePermissions(principal, "Table", db, name,
        name = tableNameAllTables, NoColumns, <<"DESCRIBE">>, <<>>)

TableWithColumnsEntry(principal, db, name, cols, permissions, grantable) ==
    PrincipalResourcePermissions(principal, "TableWithColumns", db, name, FALSE,
        cols, permissions, grantable)

Entries ==
    { TableEntry("alice", t[1], t[2]) :
          t \in { <<"d1", "t1">>, <<"d1", "t2">>, <<"d2", "t1">>,
                  <<"d1", tableNameAllTables>> } }
    \cup { TableEntry("bob", "d1", "t1") }
    \cup { TableWithColumnsEntry("alice", t[1], t[2], ColumnWildcard, p[1], p[2]) :
               t \in { <<"d1", "t1">>, <<"d2", "t1">>,
                       <<"d1", tableNameAllTables>> },
               p \in { << <<PermissionSelect>>, <<>> >>,
                       << <<"DESCRIBE">>, <<>> >>,
                       << <<"DESCRIBE">>, <<PermissionSelect>> >>,
                       << <<>>, <<PermissionSelect>> >> } }
    \cup { TableWithColumnsEntry("alice", t[1], t[2], c, <<PermissionSelect>>, <<>>) :
               t \in { <<"d1", "t1">>, <<"d2", "t2">> },
               c \in { ColumnNames(<<"c2", "c1">>), ColumnNames(<<"c1">>),
                       ColumnWildcardExcept(<<"c1">>) } }
    \cup { TableWithColumnsEntry("bob", "d1", "t1", ColumnWildcard,
                                 <<PermissionSelect>>, <<>>) }
    \cup { PrincipalResourcePermissions("alice", k, "", "", FALSE, NoColumns,
                                        <<"DESCRIBE">>, <<>>) :
               k \in {"Catalog", "DataLocation", "Database"} }
    \cup { PrincipalResourcePermissions("bob", "Catalog", "", "", FALSE, NoColumns,
                                        <<"DESCRIBE">>, <<>>) }

\* grants whose permissions include SELECT
Grants ==
    [principal : {"alice", "bob"}, db : {"d1"}, name : {"t1"},
     tableWildcard : {FALSE},
     permissions : { <<"DESCRIBE", PermissionSelect>> },
     grantable : { <<>>, <<PermissionSelect>> }]
    \cup
    [principal : {"alice"}, db : {"d1"}, name : {""}, tableWildcard : {TRUE},
     permissions : { <<"DESCRIBE", PermissionSelect>> },
     grantable : { <<>> }]

ListPermissionsInput(kinds, name, tableWildcard, tableType, columnNames, excludedColumnNames, columnWildcard) ==
    [input |-> [principal |-> "alice",
                resource |->
                    [kinds |-> kinds,
                     table |-> [db |-> IF "Table" \in kinds THEN "d1" ELSE "",
                                name |-> name,
                                tableWildcard |-> tableWildcard]]],
     tableType |-> tableType, columnNames |-> columnNames,
     excludedColumnNames |-> excludedColumnNames,
     columnWildcard |-> columnWildcard]

Requests ==
    { ListPermissionsInput({"Table"}, "t1", FALSE, tableTypeTable, <<>>, <<>>, FALSE),
      ListPermissionsInput({"Table"}, "", TRUE, tableTypeTable, <<>>, <<>>, FALSE),
      ListPermissionsInput({"Table"}, "t1", FALSE, tableTypeTableWithColumns,
                           <<"c1", "c2">>, <<>>, FALSE),
      ListPermissionsInput({"Table"}, "t1", FALSE, tableTypeTableWithColumns,
                           <<>>, <<>>, TRUE),
      ListPermissionsInput({"Table"}, "t1", FALSE, tableTypeTableWithColumns,
                           <<>>, <<"c1">>, FALSE),
      ListPermissionsInput({"Catalog"}, "", FALSE, "", <<>>, <<>>, FALSE),
      ListPermissionsInput({"DataLocation"}, "", FALSE, "", <<>>, <<>>, FALSE),
      ListPermissionsInput({"Database"}, "", FALSE, "", <<>>, <<>>, FALSE),
      ListPermissionsInput({"Catalog", "Database", "Table"}, "t1", FALSE,
                           tableTypeTable, <<>>, <<>>, FALSE),
      ListPermissionsInput({}, "", FALSE, "", <<>>, <<>>, FALSE) }

FilterInit ==
    /\ filt \in { [filter |-> "filterPermissions", request |-> r,
                   pc |-> "listing", allPermissions |-> <<>>,
                   cleanPermissions |-> <<>>] : r \in Requests }
    /\ wait = NoWait
    /\ cancelled = FALSE
    /\ peer = NoWait
    /\ rd = NoResourceData

\* ListPermissions returns one more entry
ListEntry ==
    /\ filt.filter # "none"
    /\ filt.pc = "listing"
    /\ Len(filt.allPermissions) < MaxListed
    /\ \E e \in Entries :
           filt' = [filt EXCEPT !.allPermissions = Append(@, e)]
    /\ UNCHANGED <<wait, cancelled, peer, rd>>

\* ListPermissions returns the two entries of a grant that included SELECT
ListGrant ==
    /\ filt.filter # "none"
    /\ filt.pc = "listing"
    /\ Len(filt.allPermissions) + 2 <= MaxListed
    /\ \E g \in Grants :
           filt' = [filt EXCEPT !.allPermissions = @ \o ListedAs(g)]
    /\ UNCHANGED <<wait, cancelled, peer, rd>>

Filter ==
    /\ filt.filter # "none"
    /\ filt.pc = "listing"
    /\ filt' = [filt EXCEPT
                   !.pc = "filtered",
                   !.cleanPermissions =
                       filterPermissions(filt.request.input, filt.request.tableType,
                           filt.request.columnNames,
                           filt.request.excludedColumnNames,
                           filt.request.columnWildcard, filt.allPermissions)]
    /\ UNCHANGED <<wait, cancelled, peer, rd>>

FilterNext == ListEntry \/ ListGrant \/ Filter

FilterSpec == FilterInit /\ [][FilterNext]_vars

(***************************************************************************)
(* Properties.                                                             *)
(***************************************************************************)
\* the poll issued last has returned
PollReturned(w) == w.polls >= 1 /\ w.pc # "refreshing" /\ w.lastClass # "none"

\* C1: when the first call of refresh returns a target label without error,
\* Wait has returned success with that snapshot after exactly one poll that
\* started at time 0, and has not slept; so too for the RDS waits, whose
\* Delay is 5 seconds.
C1_TargetOnFirstPoll ==
    (/\ wait.polls = 1
     /\ PollReturned(wait)
     /\ LastResult(wait).err = NilErr
     /\ LastResult(wait).label \in wait.spec.target)
        => /\ wait.state = "DONE"
           /\ wait.result.kind = "Success"
           /\ wait.result.snap = LastResult(wait).snap
           /\ wait.lastPollAt = 0
           /\ wait.sleeps = 0
           /\ wait.elapsed <= MaxRefreshTime

C1_Witness ==
    /\ wait.spec.name = "rdsWaitForAvailable"
    /\ wait.spec.delay = 5
    /\ wait.polls = 1
    /\ wait.state = "DONE"
    /\ wait.result.snap = Entity("available")

\* C2: when refresh returned pending labels on its first N calls and a
\* target label on call N+1, all without error, Wait has polled exactly N+1
\* times, slept N times, and returned success with the snapshot of poll N+1.
C2_PendingThenTarget ==
    (/\ PollReturned(wait)
     /\ LastResult(wait).err = NilErr
     /\ LastResult(wait).label \in wait.spec.target
     /\ wait.otherSeen = 0
     /\ (wait.seenLabels \ {LastResult(wait).label}) \subseteq wait.spec.pending)
        => /\ wait.state = "DONE"
           /\ wait.polls = wait.pendingSeen + 1
           /\ wait.sleeps = wait.pendingSeen
           /\ wait.result.kind = "Success"
           /\ wait.result.snap = LastResult(wait).snap

\* C2, the concrete scenario on the creation wait of the RDS cluster
\* endpoint: the describe call answered with a "creating" endpoint N times
\* and then with an "available" one
C2_CreatingThenAvailable ==
    (/\ wait.spec.name = "rdsWaitForAvailable"
     /\ PollReturned(wait)
     /\ wait.lastResp.err = NoError
     /\ ~wait.lastResp.isNil
     /\ wait.lastResp.items # <<>>
     /\ wait.lastResp.items[1] = "available"
     /\ wait.seenLabels \subseteq {"creating", "available"})
        => /\ wait.state = "DONE"
           /\ wait.polls = wait.pendingSeen + 1
           /\ wait.result.kind = "Success"
           /\ wait.result.snap = Entity("available")
           /\ WaitError(wait) = "nil"

C2_PendingThenTargetSucceeds == C2_PendingThenTarget /\ C2_CreatingThenAvailable

\* creating, creating, available: success on the third poll
C2_Witness ==
    /\ wait.spec.name = "rdsWaitForAvailable"
    /\ wait.seenLabels = {"creating", "available"}
    /\ wait.pendingSeen = 2
    /\ wait.polls = 3
    /\ wait.state = "DONE"
    /\ wait.result.snap = Entity("available")

\* C3: when every call of refresh returned a pending label, a wait that has
\* returned without being cancelled returned a Timeout error and the
\* timeout has elapsed; a Timeout is never returned before the deadline; no
\* call of refresh starts once the deadline has expired or Wait has
\* returned.
C3_AllPendingState ==
    /\ (/\ Terminal(wait)
        /\ ~cancelled
        /\ wait.pendingSeen = wait.polls)
           => /\ wait.state = "TIMED_OUT"
              /\ wait.result.kind = "Timeout"
    /\ wait.state = "TIMED_OUT" => wait.elapsed >= wait.spec.timeout
    /\ wait.polls >= 1 => wait.lastPollAt < wait.spec.timeout

C3_TimeoutStopsPolling ==
    /\ []C3_AllPendingState
    /\ [][/\ wait'.polls > wait.polls => wait.elapsed < wait.spec.timeout
          /\ Terminal(wait) => wait'.polls = wait.polls]_vars

C3_Witness ==
    /\ wait.spec.name = "rdsWaitForDestroy"
    /\ wait.state = "TIMED_OUT"
    /\ wait.pendingSeen = wait.polls
    /\ wait.polls >= 2

ErrorKinds == {"NotFound", "UnexpectedState", "RemoteError", "Timeout", "Canceled"}

\* C4, the outcome: a wait that has not returned has no result; one that
\* has returned carries either a success snapshot, and then its last poll
\* observed a target label, or a classified error, never both.
C4_Outcome ==
    /\ ~Terminal(wait) => wait.result = NoResult
    /\ Terminal(wait) =>
           \/ /\ wait.state = "DONE"
              /\ wait.result.kind = "Success"
              /\ PollReturned(wait)
              /\ LastResult(wait).err = NilErr
              /\ LastResult(wait).label \in wait.spec.target
              /\ wait.result.snap = LastResult(wait).snap
           \/ /\ wait.state \in {"FAILED", "TIMED_OUT", "CANCELED"}
              /\ wait.result.kind \in ErrorKinds

\* C4: every invocation of Wait eventually returns, whatever refresh keeps
\* answering, and returns exactly one of a success snapshot or a classified
\* error.
C4_WaitReturns == <>Terminal(wait) /\ []C4_Outcome

\* a wait that saw only pending and unexpected labels and still returned
C4_Witness ==
    /\ wait.state = "TIMED_OUT"
    /\ wait.otherSeen >= 1
    /\ wait.pendingSeen >= 1
    /\ wait.elapsed >= wait.spec.timeout

\* C5: when the failure set is non-empty and the first call of refresh
\* returns one of its labels, Wait has returned a terminal error carrying
\* that snapshot and label after exactly one poll and no sleep, not success;
\* and a wait that has returned polls no more.
C5_FailureState ==
    (/\ wait.spec.failure # {}
     /\ wait.polls = 1
     /\ PollReturned(wait)
     /\ LastResult(wait).err = NilErr
     /\ LastResult(wait).label \in wait.spec.failure)
        => /\ wait.state = "FAILED"
           /\ wait.pc = "returned"
           /\ wait.result.kind \in ErrorKinds
           /\ wait.result.kind # "Success"
           /\ wait.result.snap = LastResult(wait).snap
           /\ wait.result.label = LastResult(wait).label
           /\ wait.sleeps = 0

C5_FailureOnFirstPoll ==
    /\ []C5_FailureState
    /\ [][wait.state = "FAILED" => wait'.polls = wait.polls /\ wait'.state = "FAILED"]_vars

C5_Witness ==
    /\ wait.spec.name = "fileSystemCreated"
    /\ wait.polls = 1
    /\ wait.state = "FAILED"
    /\ wait.result.label = "error"
    /\ wait.result.snap = Entity("error")

\* the remote calls on which each refresh function returns a non-nil error
RefreshFails(kind, resp) ==
    CASE kind = "rdsClusterEndpoint" ->
             /\ resp.err \notin {NoError, ErrCodeDBClusterNotFoundFault}
             /\ (resp.isNil \/ resp.items # <<>>)
      [] kind = "efsBackupPolicy" -> resp.err \notin {NoError, ErrNotFound}
      [] OTHER -> resp.err # NoError

\* C6: under the default policy (no error is retried), once a call of
\* refresh has returned a non-nil error the wait has returned FAILED with a
\* RemoteError that wraps that error, never success, whatever the earlier
\* polls returned, and it polls no more; this is so for each remote call on
\* which DBClusterEndpointStateRefreshFunc, statusAccessPointLifeCycleState,
\* statusBackupPolicy or statusFileSystemLifeCycleState returns an error,
\* and the wrapped error is the one the remote call gave.
C6_ErrorState ==
    /\ (/\ PollReturned(wait)
        /\ wait.spec.retryErrs = {}
        /\ LastResult(wait).err # NilErr)
           => /\ wait.state = "FAILED"
              /\ wait.pc = "returned"
              /\ wait.result.kind = "RemoteError"
              /\ wait.result.err = LastResult(wait).err
    /\ (/\ PollReturned(wait)
        /\ wait.spec.retryErrs = {}
        /\ RefreshFails(wait.spec.refresh, wait.lastResp))
           => /\ wait.state = "FAILED"
              /\ wait.result.kind = "RemoteError"
              /\ wait.result.err.cause = wait.lastResp.err

C7_CanceledState ==
    (cancelled /\ Terminal(wait))
        => wait.state = "CANCELED" /\ wait.result.kind = "Canceled"

NoEndpoint(resp) ==
    \/ resp.err = ErrCodeDBClusterNotFoundFault
    \/ resp.err = NoError /\ (resp.isNil \/ Len(resp.items) = 0)

\* C8: in the deletion wait of the RDS cluster endpoint (target
\* {"destroyed"}, pending {"available", "deleting"}), the poll on which the
\* describe call finds no endpoint counts as "destroyed": the wait returns
\* success on that very poll, with the empty snapshot, and
\* resourceAwsRDSClusterEndpointWaitForDestroy returns nil, after whatever
\* "available" or "deleting" polls came before.
C8_NotFoundIsDestroyed ==
    (/\ wait.spec.name = "rdsWaitForDestroy"
     /\ PollReturned(wait)
     /\ NoEndpoint(wait.lastResp))
        => /\ wait.spec.target = {"destroyed"}
           /\ wait.spec.pending = {"available", "deleting"}
           /\ wait.state = "DONE"
           /\ wait.result.kind = "Success"
           /\ wait.result.label = "destroyed"
           /\ wait.result.snap = EmptySnap
           /\ wait.polls = wait.pendingSeen + wait.otherSeen + 1
           /\ WaitError(wait) = "nil"

\* not found on poll 2, after one "deleting" poll
C8_Witness ==
    /\ wait.spec.name = "rdsWaitForDestroy"
    /\ wait.polls = 2
    /\ wait.seenLabels = {"deleting", "destroyed"}
    /\ wait.lastResp.err = NoError
    /\ wait.lastResp.items = <<>>
    /\ wait.state = "DONE"
    /\ WaitError(wait) = "nil"

WaitStates == {"PENDING", "DONE", "FAILED", "TIMED_OUT", "CANCELED"}

\* C9, one step of the wait: the state changes only from PENDING and only to
\* one of the four final states; a final state is left by no step and sees
\* no poll; DONE is entered only by the return of a poll that observed a
\* target label, FAILED only by the return of a poll, TIMED_OUT only at the
\* deadline, CANCELED only on the caller's signal.
C9_Step ==
    /\ wait'.state # wait.state =>
           /\ wait.state = "PENDING"
           /\ wait'.state \in {"DONE", "FAILED", "TIMED_OUT", "CANCELED"}
    /\ Terminal(wait) => wait' = wait /\ cancelled' = cancelled
    /\ (wait.state = "PENDING" /\ wait'.state = "DONE") =>
           /\ wait.pc = "refreshing"
           /\ wait'.polls = wait.polls
           /\ LastResult(wait').err = NilErr
           /\ LastResult(wait').label \in wait.spec.target
    /\ (wait.state = "PENDING" /\ wait'.state = "FAILED") => wait.pc = "refreshing"
    /\ (wait.state = "PENDING" /\ wait'.state = "TIMED_OUT") =>
           wait'.elapsed >= wait.spec.timeout
    /\ (wait.state = "PENDING" /\ wait'.state = "CANCELED") => cancelled

\* C9: the wait starts in PENDING, is always in one of the five states, and
\* moves as C9_Step says.
C9_StateMachine ==
    /\ wait.state = "PENDING"
    /\ [](wait.state \in WaitStates)
    /\ [](wait.pc # "returned" <=> wait.state = "PENDING")
    /\ [][C9_Step]_vars

C9_Witness ==
    /\ wait.state = "FAILED"
    /\ wait.result.kind = "UnexpectedState"
    /\ wait.polls >= 2

\* C10, the floor: a sleep between two polls is never shorter than
\* MinTimeout.
C10_Floor == wait.sleeps > 0 => wait.lastSleep >= wait.spec.minTimeout

ClassesOf(spec, label) ==
    { c \in {"pending", "target", "failure"} : label \in spec[c] }

\* C11: the pending, target and failure label sets of the wait are pairwise
\* disjoint, so are the Pending and Target of the two RDS waits as the code
\* builds them, and a label that a poll returned without error lies in at
\* most one set and is classified as that set, or as unexpected when it
\* lies in none.
C11_DisjointLabelSets ==
    /\ wait.spec.pending \cap wait.spec.target = {}
    /\ wait.spec.pending \cap wait.spec.failure = {}
    /\ wait.spec.target \cap wait.spec.failure = {}
    /\ \A t \in Timeouts :
           /\ resourceAwsRDSClusterEndpointWaitForDestroy(t).pending
                  \cap resourceAwsRDSClusterEndpointWaitForDestroy(t).target = {}
           /\ resourceAwsRDSClusterEndpointWaitForAvailable(t).pending
                  \cap resourceAwsRDSClusterEndpointWaitForAvailable(t).target = {}
    /\ (PollReturned(wait) /\ LastResult(wait).err = NilErr) =>
           LET cs == ClassesOf(wait.spec, LastResult(wait).label)
           IN  /\ Cardinality(cs) <= 1
               /\ cs = {} <=> wait.lastClass = "unexpected"
               /\ cs # {} => cs = {wait.lastClass}

\* the deletion wait saw an unexpected, a pending and a target label
C11_Witness ==
    /\ wait.spec.name = "rdsWaitForDestroy"
    /\ wait.seenLabels = {"creating", "available", "destroyed"}
    /\ wait.lastClass = "target"
    /\ wait.state = "DONE"

\* the remote answers on which an EFS status function finds nothing
NotFoundAnswer(kind, resp) ==
    CASE kind = "efsBackupPolicy" -> resp.err = ErrNotFound
      [] kind \in {"efsAccessPoint", "efsFileSystem"} ->
             /\ resp.err = NoError
             /\ (resp.isNil \/ Len(resp.items) = 0 \/ resp.items[1] = NilItem)
      [] OTHER -> FALSE

\* C12, the state: an EFS status function reports an absent entity as the
\* empty label with a nil snapshot; where absence is not a target this is
\* a label of no set; a wait whose last poll returned a label of no set has
\* not succeeded; and a wait that failed on such a label saw the condition
\* before, more than the grace period earlier.
C12_UnexpectedState ==
    /\ (PollReturned(wait) /\ NotFoundAnswer(wait.spec.refresh, wait.lastResp)) =>
           /\ LastResult(wait) = RefreshResult(NilSnap, NotFoundLabel, NilErr)
           /\ NotFoundLabel \notin wait.spec.target =>
                  /\ wait.lastClass = "unexpected"
                  /\ wait.state # "DONE"
    /\ (PollReturned(wait) /\ wait.lastClass = "unexpected") =>
           /\ wait.state # "DONE"
           /\ wait.result.kind # "Success"
           /\ wait.firstUnexpectedAt >= 0
    /\ wait.result.kind \in {"NotFound", "UnexpectedState"} =>
           /\ wait.state = "FAILED"
           /\ wait.lastClass = "unexpected"
           /\ wait.otherSeen >= 2
           /\ wait.elapsed - wait.firstUnexpectedAt > GracePeriod

\* C12, the poll that returns a label of no set: the first one is taken as
\* a pending label (the wait sleeps and polls again, unless it is out of
\* time), a later one within the grace period likewise, and one past the
\* grace period makes the wait fail with NotFound or UnexpectedState.
C12_UnexpectedStep ==
    (/\ wait.pc = "refreshing"
     /\ wait'.pc # "refreshing"
     /\ wait'.state # "CANCELED"
     /\ wait'.lastClass = "unexpected")
        => /\ wait.firstUnexpectedAt < 0 =>
                  /\ wait'.firstUnexpectedAt = wait'.elapsed
                  /\ wait'.state \in {"PENDING", "TIMED_OUT"}
                  /\ wait'.state = "PENDING" => wait'.pc = "sleep"
                  /\ wait'.state = "TIMED_OUT" => wait'.elapsed >= wait.spec.timeout
           /\ (/\ wait.firstUnexpectedAt >= 0
               /\ wait'.elapsed - wait.firstUnexpectedAt > GracePeriod) =>
                  /\ wait'.state = "FAILED"
                  /\ wait'.result.kind \in {"NotFound", "UnexpectedState"}
           /\ (/\ wait.firstUnexpectedAt >= 0
               /\ wait'.elapsed - wait.firstUnexpectedAt <= GracePeriod) =>
                  /\ wait'.state \in {"PENDING", "TIMED_OUT"}
                  /\ wait'.state = "PENDING" => wait'.pc = "sleep"

\* C12: a label of no set (the not-found sentinel of the EFS status
\* functions included, where absence is not a target) is taken as pending
\* when first observed, makes the wait fail when it recurs past the grace
\* period, and never makes it succeed.
C12_UnexpectedLabel == []C12_UnexpectedState /\ [][C12_UnexpectedStep]_vars

\* the access point was absent on the first poll and still absent past the
\* grace period
C12_Witness ==
    /\ wait.spec.name = "accessPointCreated"
    /\ wait.state = "FAILED"
    /\ wait.result.kind = "NotFound"
    /\ wait.firstUnexpectedAt = 0
    /\ wait.seenLabels = {NotFoundLabel}
    /\ NotFoundAnswer(wait.spec.refresh, wait.lastResp)

\* the remote answer says that the entity does not exist
AbsentEntity(kind, resp) ==
    IF kind = "rdsClusterEndpoint" THEN NoEndpoint(resp) ELSE NotFoundAnswer(kind, resp)

\* the remote call failed, and not with a not-found code
RemoteFault(kind, resp) ==
    CASE kind = "rdsClusterEndpoint" ->
             resp.err \notin {NoError, ErrCodeDBClusterNotFoundFault}
      [] kind = "efsBackupPolicy" -> resp.err \notin {NoError, ErrNotFound}
      [] OTHER -> resp.err # NoError

\* C13: a wait that returned without success carries exactly one of the
\* five error kinds and the kind tells the cause: NotFound only when the
\* remote answered that the entity is absent, UnexpectedState only for an
\* entity whose label is in no set, RemoteError only when the remote call
\* failed or reported a failure label, Timeout only at the deadline,
\* Canceled only after the caller's signal; and a remote call that failed
\* with a fault the wait does not retry on ends the wait with RemoteError,
\* not with NotFound and not with success.
C13_KindMatchesCause ==
    /\ (Terminal(wait) /\ wait.state # "DONE") =>
           /\ wait.result.kind \in ErrorKinds
           /\ wait.result.kind = "NotFound" =>
                  AbsentEntity(wait.spec.refresh, wait.lastResp)
           /\ wait.result.kind = "UnexpectedState" =>
                  /\ wait.lastResp.err = NoError
                  /\ LastResult(wait).snap.kind = "entity"
                  /\ ClassesOf(wait.spec, LastResult(wait).label) = {}
           /\ wait.result.kind = "RemoteError" =>
                  \/ RemoteFault(wait.spec.refresh, wait.lastResp)
                  \/ LastResult(wait).label \in wait.spec.failure
           /\ wait.result.kind = "Timeout" => wait.elapsed >= wait.spec.timeout
           /\ wait.result.kind = "Canceled" => cancelled
    /\ (/\ PollReturned(wait)
        /\ RemoteFault(wait.spec.refresh, wait.lastResp)
        /\ wait.lastResp.err \notin wait.spec.retryErrs)
           => /\ wait.state = "FAILED"
              /\ wait.result.kind = "RemoteError"

\* the creation wait of the RDS cluster endpoint returned NotFound although
\* the describe call had failed with an internal failure
C13_Witness ==
    /\ wait.spec.name = "rdsWaitForAvailable"
    /\ wait.state = "FAILED"
    /\ wait.result.kind = "NotFound"
    /\ wait.lastResp.err = ErrOther
    /\ ~wait.lastResp.isNil
    /\ wait.lastResp.items = <<>>

\* C14, the state: a wait has issued no mutating remote call, and exactly
\* one read-only call per poll; each refresh function issues one remote
\* operation, a describe or a find.
C14_ReadOnlyState ==
    /\ wait.calls.writes = 0
    /\ wait.calls.reads = wait.polls
    /\ \A kind \in RefreshKinds :
           /\ Len(RefreshCalls(kind)) = 1
           /\ RefreshCalls(kind)[1] \notin MutatingOperations

\* C14: no step of a wait changes the remote side: the start of a poll
\* issues one read-only call and nothing else, and the return of the
\* refresh call, a sleep and a cancellation issue no call at all.
C14_WaitIsReadOnly ==
    /\ []C14_ReadOnlyState
    /\ [][/\ wait'.calls.writes = wait.calls.writes
          /\ wait'.polls = wait.polls + 1 =>
                 wait'.calls.reads = wait.calls.reads + 1
          /\ wait'.polls = wait.polls => wait'.calls = wait.calls]_vars

\* the deletion wait of the RDS endpoint after three polls
C14_Witness ==
    /\ wait.spec.name = "rdsWaitForDestroy"
    /\ wait.state = "DONE"
    /\ wait.polls = 3
    /\ wait.calls = [reads |-> 3, writes |-> 0]

\* the states a wait can step to by itself: what its own record, its own
\* refresh results and its own caller's signal allow
SoloSteps(w, cancel) ==
    IF w.state # "PENDING" THEN {}
    ELSE IF cancel THEN {Canceled(w)}
    ELSE CASE w.pc = "poll" ->
                  IF DeadlineExpired(w) THEN {} ELSE {StartPoll(w)}
           [] w.pc = "refreshing" ->
                  { Observe(w, resp, d) :
                      resp \in ResponsesOf(w.spec.refresh), d \in 0..MaxRefreshTime }
           [] OTHER -> { Slept(w, s) : s \in SleepChoices(w) }

\* C15, one step of two waits running side by side: a step of one leaves
\* the other as it is (WaitSpec, clock, backoff interval, poll count and
\* outcome), and is a step the wait could have taken alone on the same
\* refresh result.
C15_Step ==
    /\ wait' # wait =>
           /\ peer' = peer
           /\ wait' \in SoloSteps(wait, cancelled)
    /\ peer' # peer =>
           /\ wait' = wait /\ cancelled' = cancelled
           /\ peer' \in SoloSteps(peer, FALSE)
    /\ wait'.spec = wait.spec /\ peer'.spec = peer.spec

CreateCallOf(handler) ==
    CASE handler = "resourceAwsRouteTableAssociationCreate" -> "AssociateRouteTable"
      [] handler = "resourceAwsRDSClusterEndpointCreate" -> "CreateDBClusterEndpoint"
      [] OTHER -> "EnableTransitGatewayRouteTablePropagation"

WaitOf(handler) ==
    CASE handler = "resourceAwsRouteTableAssociationCreate" ->
             "waitRouteTableAssociationCreated"
      [] handler = "resourceAwsRDSClusterEndpointCreate" ->
             "resourceAwsRDSClusterEndpointWaitForAvailable"
      [] OTHER -> "waitTransitGatewayRouteTablePropagationStateEnabled"

ReadOf(handler) ==
    CASE handler = "resourceAwsRouteTableAssociationCreate" ->
             "resourceAwsRouteTableAssociationRead"
      [] handler = "resourceAwsRDSClusterEndpointCreate" ->
             "resourceAwsRDSClusterEndpointRead"
      [] OTHER -> "resourceAwsEc2TransitGatewayRouteTablePropagationRead"

\* where a step first appears in a log, 0 when it does not
FirstAt(log, step) ==
    IF \E i \in DOMAIN log : log[i] = step
    THEN CHOOSE i \in DOMAIN log :
             log[i] = step /\ \A j \in 1..(i - 1) : log[j] # step
    ELSE 0

Times(log, step) == Cardinality({ i \in DOMAIN log : log[i] = step })

IsError(e) == e \notin {"", NoError}

\* the steps in log are those of the create path of handler, in order:
\* the remote call (again when it is retried), SetId, the wait, the read;
\* SetId only after a call that succeeded, the wait right after SetId, the
\* read right after a wait that succeeded, and an error returned by the
\* step that failed with nothing run after it
CreatePathInOrder(d, log, handler) ==
    LET s == FirstAt(log, "SetId")
        w == FirstAt(log, WaitOf(handler))
        r == FirstAt(log, ReadOf(handler))
    IN  /\ \A i \in DOMAIN log :
               log[i] \in {CreateCallOf(handler), "SetId", WaitOf(handler),
                           ReadOf(handler)}
        /\ log # <<>> => log[1] = CreateCallOf(handler)
        /\ \A i \in DOMAIN log :
               log[i] = CreateCallOf(handler) => (s = 0 \/ i < s)
        /\ s > 0 => s >= 2 /\ d.callErr = NoError
        /\ s = 0 => d.id = d.priorId /\ w = 0 /\ r = 0
        /\ w > 0 => w = s + 1
        /\ w = 0 => r = 0
        /\ r > 0 => r = w + 1 /\ d.waitErr = NoError
        /\ Times(log, WaitOf(handler)) <= 1
        /\ Times(log, ReadOf(handler)) <= 1
        /\ IsError(d.callErr) =>
               /\ s = 0
               /\ \/ d.pc = "done" /\ IsError(d.err)
                  \/ /\ d.pc = "call"
                     /\ d.callErr = errCodeInvalidRouteTableIDNotFound
                     /\ d.attempts < MaxAttempts
        /\ IsError(d.waitErr) => d.pc = "done" /\ IsError(d.err) /\ r = 0
        /\ d.readOut = "error" => d.pc = "done" /\ IsError(d.err)
        /\ d.err = NoError => r > 0
        /\ d.attrs = "read" => r > 0

\* C16, the state: the steps a create handler has run are in the order of
\* CreatePathInOrder.
C16_OrderState ==
    rd.handler \in CreateHandlers => CreatePathInOrder(rd, rd.log, rd.handler)

\* C16, one step of a create handler: steps are only added to the log; the
\* resource gets an ID only on the answer of a remote call that succeeded;
\* the wait is called only with the ID set; the read only after the wait
\* returned without error; a handler that has returned does nothing more.
C16_OrderStep ==
    rd.handler \in CreateHandlers =>
        /\ rd.pc = "done" => rd' = rd
        /\ Len(rd'.log) >= Len(rd.log)
        /\ SubSeq(rd'.log, 1, Len(rd.log)) = rd.log
        /\ (rd'.id # rd.id /\ rd'.id # "") =>
               rd.pc = "call" /\ rd'.callErr = NoError
        /\ Times(rd'.log, WaitOf(rd.handler)) > Times(rd.log, WaitOf(rd.handler)) =>
               /\ rd.id # "" /\ rd'.id = rd.id
               /\ rd.log[Len(rd.log)] = "SetId"
        /\ Times(rd'.log, ReadOf(rd.handler)) > Times(rd.log, ReadOf(rd.handler)) =>
               rd.waitErr = NoError /\ rd.pc = "read"

\* C16: in the create handlers of the route table association, the RDS
\* cluster endpoint and the transit gateway route table propagation the
\* steps run in the order remote create call, SetId, wait, read; the ID is
\* set only if the remote call succeeded, the wait starts only after the ID
\* is set, the read runs only if the wait succeeded, and a step that fails
\* makes the handler return an error without running the later steps.
C16_CreateOrder == []C16_OrderState /\ [][C16_OrderStep]_vars

\* the RDS cluster endpoint was created, became available on the second
\* poll of the wait, and was read back
C16_Witness ==
    /\ rd.handler = "resourceAwsRDSClusterEndpointCreate"
    /\ rd.pc = "done"
    /\ rd.err = NoError
    /\ rd.id = rd.config.cluster_endpoint_identifier
    /\ rd.attrs = "read"
    /\ rd.log = <<"CreateDBClusterEndpoint", "SetId",
                  "resourceAwsRDSClusterEndpointWaitForAvailable",
                  "resourceAwsRDSClusterEndpointRead">>
    /\ wait.state = "DONE"
    /\ wait.polls = 2

\* what DBClusterEndpointStateRefreshFunc is said to return on an answer of
\* the describe call
RefreshedAsClaimed(resp, res) ==
    LET noEndpoints == ~resp.isNil /\ Len(resp.items) = 0
    IN  IF \/ resp.err = ErrCodeDBClusterNotFoundFault
           \/ resp.err # NoError /\ noEndpoints
           \/ resp.err = NoError /\ (resp.isNil \/ noEndpoints)
        THEN res = RefreshResult(EmptySnap, "destroyed", NilErr)
        ELSE IF resp.err # NoError
             THEN /\ res.label = ""
                  /\ res.err # NilErr
                  /\ res.err.cause = resp.err
             ELSE /\ res.label = resp.items[1]
                  /\ res.snap = Entity(resp.items[1])
                  /\ res.err = NilErr

\* C17: DBClusterEndpointStateRefreshFunc returns ("destroyed", nil error)
\* when the describe call fails with the cluster-not-found fault, fails with
\* any error while its output lists no endpoint, or succeeds with a nil or
\* empty list; ("", error) on every other failure; the first endpoint's
\* status otherwise; in the creation wait as in the deletion wait, so that
\* a creation wait too is handed the label "destroyed", which the deletion
\* wait takes as its target.
C17_NotFoundIsDestroyed ==
    /\ \A resp \in ResponsesOf("rdsClusterEndpoint") :
           RefreshedAsClaimed(resp, DBClusterEndpointStateRefreshFunc(resp))
    /\ (wait.spec.refresh = "rdsClusterEndpoint" /\ PollReturned(wait)) =>
           /\ RefreshedAsClaimed(wait.lastResp, LastResult(wait))
           /\ LastResult(wait).err = NilErr =>
                  LastResult(wait).label \in wait.seenLabels
           /\ LastResult(wait).label = "destroyed" =>
                  IF wait.spec.name = "rdsWaitForDestroy"
                  THEN wait.state = "DONE" /\ wait.result.label = "destroyed"
                  ELSE wait.lastClass = "unexpected" /\ wait.state # "DONE"

\* the creation wait was told "destroyed" on a describe call that failed
\* with an internal failure and an empty output
C17_Witness ==
    /\ wait.spec.name = "rdsWaitForAvailable"
    /\ wait.polls = 1
    /\ wait.pc = "sleep"
    /\ wait.lastResp = [err |-> ErrOther, isNil |-> FALSE, items |-> <<>>]
    /\ wait.seenLabels = {"destroyed"}
    /\ wait.lastClass = "unexpected"

InSeq(e, s) == \E i \in DOMAIN s : s[i] = e

\* a table filter ran: the request reached filterTablePermissions or
\* filterTableWithColumnsPermissions
TableFiltered ==
    /\ filt.filter = "filterPermissions"
    /\ filt.pc = "filtered"
    /\ filt.request.input.resource.kinds = {"Table"}

\* the entry is on the requested table: the database is the requested one,
\* and so is the table name unless the request is a table wildcard
Pertains(table, perm) ==
    /\ perm.kind \in {"Table", "TableWithColumns"}
    /\ perm.db = table.db
    /\ (perm.name = table.name \/ table.tableWildcard)

\* C18: every permission returned by filterTablePermissions or
\* filterTableWithColumnsPermissions is on the requested table; entries of
\* another table or of another database, not matched by a requested table
\* wildcard, are not in the result.
C18_OnlyRequestedTable ==
    TableFiltered
        => \A i \in DOMAIN filt.cleanPermissions :
               Pertains(filt.request.input.resource.table, filt.cleanPermissions[i])

\* the request is for table t1 of database d1 and the result holds the
\* SELECT entry of table t1 of database d2
C18_Witness ==
    /\ TableFiltered
    /\ filt.request.tableType = tableTypeTable
    /\ filt.request.input.resource.table.db = "d1"
    /\ filt.request.input.resource.table.name = "t1"
    /\ InSeq(TableWithColumnsEntry("alice", "d2", "t1", ColumnWildcard,
                                   <<PermissionSelect>>, <<>>),
             filt.cleanPermissions)

\* filterTablePermissions ran on the listing
TableRequested == TableFiltered /\ filt.request.tableType = tableTypeTable

\* the Table entry of a grant on the requested table
GrantedTable(table, perm) ==
    /\ perm.kind = "Table"
    /\ perm.db = table.db
    /\ IF table.tableWildcard THEN perm.tableWildcard ELSE perm.name = table.name

\* the TableWithColumns entry with ColumnWildcard under the requested table's
\* name, ALL_TABLES for a table wildcard request
GrantedColumns(table, perm) ==
    /\ perm.kind = "TableWithColumns"
    /\ perm.cols.wildcard
    /\ perm.name = IF table.tableWildcard THEN tableNameAllTables ELSE table.name

\* both entries of a SELECT grant to the requested principal on the requested
\* table are kept, and so is each such entry on its own
C19_BothKept ==
    LET input == filt.request.input
        table == input.resource.table
        all == filt.allPermissions
        clean == filt.cleanPermissions
    IN  /\ \A i \in DOMAIN all :
               /\ all[i].principal = input.principal
               /\ \/ GrantedTable(table, all[i])
                  \/ /\ GrantedColumns(table, all[i])
                     /\ \/ FirstIs(all[i].permissions, PermissionSelect)
                        \/ FirstIs(all[i].grantable, PermissionSelect)
               => InSeq(all[i], clean)
        /\ \A g \in Grants :
               /\ g.principal = input.principal
               /\ g.db = table.db
               /\ g.name = table.name
               /\ g.tableWildcard = table.tableWildcard
               /\ all = ListedAs(g)
               => clean = all

\* the claim as stated: a TableWithColumns wildcard entry whose first
\* permission is not SELECT is dropped
C19_AsStated ==
    TableRequested
        => /\ C19_BothKept
           /\ \A i \in DOMAIN filt.allPermissions :
                  LET perm == filt.allPermissions[i]
                  IN  /\ perm.kind = "TableWithColumns"
                      /\ perm.cols.wildcard
                      /\ ~FirstIs(perm.permissions, PermissionSelect)
                      => ~InSeq(perm, filt.cleanPermissions)

\* C19: a grant including SELECT on a table is listed as two entries and
\* filterTablePermissions keeps both for the requested principal: the Table
\* entry of the same database and name (the one carrying TableWildcard for a
\* table wildcard request) and the TableWithColumns entry with ColumnWildcard
\* of the same name (ALL_TABLES for a wildcard request) whose first permission
\* or first grantable permission is SELECT; a TableWithColumns wildcard entry
\* of which neither the first permission nor the first grantable permission is
\* SELECT is dropped.
C19_SelectGrantKept ==
    TableRequested
        => /\ C19_BothKept
           /\ \A i \in DOMAIN filt.allPermissions :
                  LET perm == filt.allPermissions[i]
                  IN  /\ perm.kind = "TableWithColumns"
                      /\ perm.cols.wildcard
                      /\ ~FirstIs(perm.permissions, PermissionSelect)
                      /\ ~FirstIs(perm.grantable, PermissionSelect)
                      => ~InSeq(perm, filt.cleanPermissions)

\* a grant of DESCRIBE and SELECT, SELECT grantable, to the requested
\* principal on the requested table t1 was listed as its two entries, and
\* both are in the result
C19_Witness ==
    /\ TableRequested
    /\ ~filt.request.input.resource.table.tableWildcard
    /\ filt.allPermissions =
           ListedAs([principal |-> "alice", db |-> "d1", name |-> "t1",
                     tableWildcard |-> FALSE,
                     permissions |-> <<"DESCRIBE", PermissionSelect>>,
                     grantable |-> <<PermissionSelect>>])
    /\ filt.cleanPermissions = filt.allPermissions

\* the steps of an update whose replace call succeeded, in order; the last
\* SetId is the read's, when it does not find the association
UpdatePath ==
    <<"ReplaceRouteTableAssociation", "SetId", "waitRouteTableAssociationUpdated",
      "resourceAwsRouteTableAssociationRead", "SetId">>

\* C20, the state of an update: the replace call is the first step and is
\* made once.  When it failed with InvalidAssociationID.NotFound the steps
\* after it are those of the create path, in its order, the wait for the
\* update is never called, and the handler returns what the create handler
\* returns.  When it failed with another error the handler has returned an
\* error and the ID is the one the resource had.  When it succeeded the ID
\* is the new association's from before the wait until the read, and the
\* read has run only if the wait returned no error.
C20_UpdateState ==
    rd.handler = "resourceAwsRouteTableAssociationUpdate" =>
        LET log == rd.log
            create == "resourceAwsRouteTableAssociationCreate"
        IN  /\ log = <<>> => rd.pc = "call" /\ rd.id = rd.priorId /\ rd.replaceErr = ""
            /\ log # <<>> =>
                   /\ log[1] = "ReplaceRouteTableAssociation"
                   /\ Times(log, "ReplaceRouteTableAssociation") = 1
                   /\ rd.replaceErr # ""
            /\ rd.replaceErr = errCodeInvalidAssociationIDNotFound =>
                   /\ rd.running = create
                   /\ Times(log, "waitRouteTableAssociationUpdated") = 0
                   /\ Tail(log) = <<>> => rd.pc = "call" /\ rd.id = rd.priorId
                   /\ Tail(log) # <<>> => CreatePathInOrder(rd, Tail(log), create)
            /\ (IsError(rd.replaceErr)
                    /\ rd.replaceErr # errCodeInvalidAssociationIDNotFound) =>
                   /\ rd.pc = "done"
                   /\ IsError(rd.err)
                   /\ rd.id = rd.priorId
                   /\ log = <<"ReplaceRouteTableAssociation">>
            /\ rd.replaceErr = NoError =>
                   /\ rd.running = rd.handler
                   /\ Len(log) \in 2..Len(UpdatePath)
                   /\ log = SubSeq(UpdatePath, 1, Len(log))
                   /\ Len(log) <= 3 => rd.id = "rtbassoc-3"
                   /\ Len(log) = 4 => rd.pc = "done" /\ rd.id = "rtbassoc-3"
                   /\ Len(log) = 5 => rd.pc = "done" /\ rd.id = "" /\ rd.err = NoError
                   /\ Len(log) >= 4 => rd.waitErr = NoError
                   /\ IsError(rd.waitErr) =>
                          rd.pc = "done" /\ IsError(rd.err) /\ Len(log) = 3
                   /\ rd.err = NoError => Len(log) >= 4

\* C20, one step of an update: the wait for the update is called with the
\* new association ID already set; the read after it is called only when
\* that wait returned no error; an update that has returned does nothing
\* more.
C20_UpdateStep ==
    rd.handler = "resourceAwsRouteTableAssociationUpdate" =>
        /\ rd.pc = "done" => rd' = rd
        /\ SubSeq(rd'.log, 1, Len(rd.log)) = rd.log
        /\ Times(rd'.log, "waitRouteTableAssociationUpdated")
               > Times(rd.log, "waitRouteTableAssociationUpdated") =>
               /\ rd.replaceErr = NoError
               /\ rd.id = "rtbassoc-3"
               /\ rd'.id = rd.id
        /\ (rd.running = rd.handler
                /\ Times(rd'.log, "resourceAwsRouteTableAssociationRead")
                       > Times(rd.log, "resourceAwsRouteTableAssociationRead")) =>
               /\ rd.waitErr = NoError
               /\ Times(rd.log, "waitRouteTableAssociationUpdated") = 1
        /\ (rd.running = rd.handler /\ rd'.running # rd.handler) =>
               /\ rd.pc = "call"
               /\ rd'.replaceErr = errCodeInvalidAssociationIDNotFound
               /\ rd'.id = rd.id

\* C20: resourceAwsRouteTableAssociationUpdate: when the replace call fails
\* with InvalidAssociationID.NotFound the handler creates a new association
\* through the create path (associate, set ID, wait created, read) and
\* returns its result; when it fails with any other error the resource ID is
\* left unchanged and an error is returned; when it succeeds the resource ID
\* becomes the new association ID before the wait for the updated state,
\* and the read runs only after that wait succeeded.
C20_UpdateOrCreate == []C20_UpdateState /\ [][C20_UpdateStep]_vars

\* the association to replace was not found; one was created through the
\* create path, and the update returned nil with the created association's
\* ID
C20_Witness ==
    /\ rd.handler = "resourceAwsRouteTableAssociationUpdate"
    /\ rd.replaceErr = errCodeInvalidAssociationIDNotFound
    /\ rd.pc = "done"
    /\ rd.err = NoError
    /\ rd.id = "rtbassoc-2"
    /\ rd.log = <<"ReplaceRouteTableAssociation", "AssociateRouteTable", "SetId",
                  "waitRouteTableAssociationCreated",
                  "resourceAwsRouteTableAssociationRead">>

\* the handler runs, or ends in, the read of the route table association or
\* of the transit gateway route table propagation
ReadsAssociationOrPropagation(d) ==
    /\ d.handler \in CreateHandlers \cup ReadHandlers
                     \cup {"resourceAwsRouteTableAssociationUpdate"}
    /\ d.handler # "resourceAwsRDSClusterEndpointCreate"

\* the answers of a read that say the remote entity is not there
NotFoundReads == {"notfound", "rtnotfound", "nil"}

\* the handler created the entity in this call: its create call succeeded
\* and its wait saw the entity created
JustCreated(d) ==
    /\ d.running \in CreateHandlers
    /\ d.callErr = NoError
    /\ Times(d.log, WaitOf(d.running)) = 1
    /\ d.waitErr = NoError

\* the reads as stated: not found clears the ID and returns nil only for a
\* resource that is not new, and is an error with the ID kept for a new one;
\* a handler that returned nil after its read found the entity has an ID
C21_ReadsAsStated ==
    (ReadsAssociationOrPropagation(rd) /\ rd.pc = "done" /\ rd.readOut # "") =>
        /\ (rd.readOut \in NotFoundReads /\ rd.isNew) =>
               IsError(rd.err) /\ rd.id # "" /\ Times(rd.log, "SetId") <= 1
        /\ (rd.readOut \in NotFoundReads /\ ~rd.isNew) =>
               rd.err = NoError /\ rd.id = ""
        /\ (rd.id = "" /\ rd.err = NoError) =>
               rd.readOut \in NotFoundReads /\ ~rd.isNew
        /\ (rd.readOut = "found" /\ rd.err = NoError) => rd.id # ""

\* C21: a read never silently drops a resource that was just created: in
\* resourceAwsRouteTableAssociationRead and
\* resourceAwsEc2TransitGatewayRouteTablePropagationRead not found clears the
\* ID and returns nil only if the resource is not new, and for a new resource
\* is an error with the ID kept; a handler that created the entity and
\* returned nil leaves the resource with an ID.
C21_NeverDropsCreated ==
    /\ C21_ReadsAsStated
    /\ (ReadsAssociationOrPropagation(rd) /\ rd.pc = "done"
            /\ JustCreated(rd) /\ rd.err = NoError) => rd.id # ""

\* an update found no association to replace, created one, waited until it
\* was created, did not find it in the read, and returned nil with the ID
\* cleared
C21_Witness ==
    /\ rd.handler = "resourceAwsRouteTableAssociationUpdate"
    /\ ~rd.isNew
    /\ rd.pc = "done"
    /\ rd.err = NoError
    /\ rd.id = ""
    /\ rd.readOut = "notfound"
    /\ rd.log = <<"ReplaceRouteTableAssociation", "AssociateRouteTable", "SetId",
                  "waitRouteTableAssociationCreated",
                  "resourceAwsRouteTableAssociationRead", "SetId">>

\* C22, the state of a delete handler: the remote delete call is its first
\* step and is made once; when it reported not found the handler has
\* returned nil and no wait was started; when it reported another error the
\* handler has returned an error and no wait was started; a wait for the
\* deletion is in the steps only after a delete call that succeeded, and the
\* resource ID is not touched.
C22_DeleteState ==
    rd.handler \in DeleteHandlers =>
        LET call ==
                CASE rd.handler = "resourceAwsRouteTableAssociationDelete" ->
                         "DisassociateRouteTable"
                  [] rd.handler = "resourceAwsCloudWatchEventBusDelete" ->
                         "DeleteEventBus"
                  [] rd.handler = "resourceAwsEmrSecurityConfigurationDelete" ->
                         "DeleteSecurityConfiguration"
                  [] OTHER -> "DisableTransitGatewayRouteTablePropagation"
            notFound ==
                CASE rd.handler = "resourceAwsRouteTableAssociationDelete" ->
                         errCodeInvalidAssociationIDNotFound
                  [] rd.handler = "resourceAwsCloudWatchEventBusDelete" ->
                         "ResourceNotFoundException"
                  [] rd.handler = "resourceAwsEmrSecurityConfigurationDelete" ->
                         "InvalidRequestException: Security configuration does not exist"
                  [] OTHER -> errCodeInvalidRouteTableIDNotFound
            waits == { i \in DOMAIN rd.log : rd.log[i] # call }
        IN  /\ rd.id = rd.priorId
            /\ rd.log = <<>> => rd.pc = "call" /\ rd.callErr = ""
            /\ rd.log # <<>> =>
                   /\ rd.log[1] = call
                   /\ Times(rd.log, call) = 1
                   /\ rd.callErr # ""
            /\ rd.callErr = notFound =>
                   rd.pc = "done" /\ rd.err = NoError /\ waits = {}
            /\ (IsError(rd.callErr) /\ rd.callErr # notFound) =>
                   rd.pc = "done" /\ IsError(rd.err) /\ waits = {}
            /\ waits # {} => rd.callErr = NoError /\ waits = {2}
            /\ rd.pc = "wait" => rd.callErr = NoError /\ waits = {}
            /\ rd.handler \in {"resourceAwsCloudWatchEventBusDelete",
                               "resourceAwsEmrSecurityConfigurationDelete"} =>
                   waits = {} /\ rd.pc # "wait"
            /\ IsError(rd.waitErr) => rd.pc = "done" /\ IsError(rd.err)

\* C22, one step of a delete handler: a wait for the deletion is started
\* only from a state in which the delete call has returned without error.
C22_DeleteStep ==
    rd.handler \in DeleteHandlers =>
        /\ rd.pc = "done" => rd' = rd
        /\ Len(rd'.log) > Len(rd.log) /\ rd.log # <<>> =>
               rd.callErr = NoError /\ rd.pc = "wait"

\* C22: deletion is idempotent for an entity that is already absent: in the
\* delete handlers of the route table association, the CloudWatch event bus,
\* the EMR security configuration and the transit gateway route table
\* propagation, a delete call that reports not found makes the handler
\* return nil without starting a wait, any other error makes it return an
\* error without waiting, and a wait for the deletion starts only after the
\* delete call succeeded.
C22_DeleteIdempotent == []C22_DeleteState /\ [][C22_DeleteStep]_vars

\* the association to delete was already gone: one call of
\* DisassociateRouteTable, no wait, nil returned
C22_Witness ==
    /\ rd.handler = "resourceAwsRouteTableAssociationDelete"
    /\ rd.callErr = errCodeInvalidAssociationIDNotFound
    /\ rd.pc = "done"
    /\ rd.err = NoError
    /\ rd.log = <<"DisassociateRouteTable">>

\* C23, the state of the creation wait: it has returned nil only with the
\* label "available" observed, and on the last poll; "destroyed" is in none
\* of its sets; a poll on which the endpoint is not visible returned
\* "destroyed", which was classified neither as target nor as pending, and
\* the wait has not succeeded on it.
C23_AvailableState ==
    wait.spec.name = "rdsWaitForAvailable" =>
        /\ wait.spec.pending = {"creating"}
        /\ wait.spec.target = {"available"}
        /\ (Terminal(wait) /\ WaitError(wait) = "nil") =>
               /\ wait.state = "DONE"
               /\ "available" \in wait.seenLabels
               /\ wait.result.label = "available"
               /\ LastResult(wait).label = "available"
               /\ ~NoEndpoint(wait.lastResp)
        /\ (PollReturned(wait) /\ NoEndpoint(wait.lastResp)) =>
               /\ LastResult(wait).label = "destroyed"
               /\ "destroyed" \in wait.seenLabels
               /\ wait.lastClass \notin {"target", "pending"}
               /\ wait.state # "DONE"
               /\ WaitError(wait) # "nil"

\* C23, the poll of the creation wait that does not see the endpoint: it is
\* not counted among the pending observations and does not end the wait in
\* success.
C23_AvailableStep ==
    (/\ wait.spec.name = "rdsWaitForAvailable"
     /\ wait.pc = "refreshing"
     /\ wait'.pc # "refreshing"
     /\ wait'.state # "CANCELED"
     /\ NoEndpoint(wait'.lastResp))
        => /\ wait'.pendingSeen = wait.pendingSeen
           /\ wait'.otherSeen = wait.otherSeen + 1
           /\ wait'.state # "DONE"

\* C23: resourceAwsRDSClusterEndpointWaitForAvailable returns nil only if a
\* poll observed the label "available": while the endpoint is not yet
\* visible DBClusterEndpointStateRefreshFunc reports "destroyed", which is
\* neither in the pending set {"creating"} nor in the target set
\* {"available"}, so that observation never counts as success and never as
\* a pending state of the creation wait.
C23_NilOnlyIfAvailable == []C23_AvailableState /\ [][C23_AvailableStep]_vars

\* the endpoint was not visible on the first poll of the creation wait and
\* available on the second
C23_Witness ==
    /\ wait.spec.name = "rdsWaitForAvailable"
    /\ wait.state = "DONE"
    /\ WaitError(wait) = "nil"
    /\ wait.polls = 2
    /\ wait.otherSeen = 1
    /\ wait.pendingSeen = 0
    /\ wait.seenLabels = {"destroyed", "available"}

\* C24: whatever the request and the listing, the result of filterPermissions
\* is a sub-list of allPermissions in the listing's order: every returned
\* element is an element of the listing, the elements keep their relative
\* order, none is returned more often than it is listed, and each has the
\* principal of the request; for a Catalog, a DataLocation or a Database
\* request, looked at in that order and before any table handling, the
\* result is exactly the listed elements of that principal on a resource of
\* that kind; and the result is nil when the request names no kind of
\* resource and no table type.
C24_OrderPreservingSubList ==
    (filt.filter = "filterPermissions" /\ filt.pc = "filtered") =>
        LET all == filt.allPermissions
            clean == filt.cleanPermissions
            input == filt.request.input
            kinds == input.resource.kinds
            OfKind(kind) ==
                SelectSeq(all, LAMBDA perm : perm.principal = input.principal
                                             /\ perm.kind = kind)
        IN  /\ Len(clean) <= Len(all)
            /\ \E f \in [DOMAIN clean -> DOMAIN all] :
                   /\ \A i \in DOMAIN clean : all[f[i]] = clean[i]
                   /\ \A i, j \in DOMAIN clean : i < j => f[i] < f[j]
            /\ \A i \in DOMAIN clean :
                   /\ clean[i].principal = input.principal
                   /\ Cardinality({ j \in DOMAIN clean : clean[j] = clean[i] })
                          <= Cardinality({ j \in DOMAIN all : all[j] = clean[i] })
            /\ "Catalog" \in kinds => clean = OfKind("Catalog")
            /\ ("Catalog" \notin kinds /\ "DataLocation" \in kinds) =>
                   clean = OfKind("DataLocation")
            /\ (kinds \cap {"Catalog", "DataLocation"} = {} /\ "Database" \in kinds) =>
                   clean = OfKind("Database")
            /\ (kinds = {} /\ filt.request.tableType = "") => clean = <<>>

\* a request that names a Catalog, a Database and a Table was answered with
\* the Catalog entry of the principal alone, out of a listing that had
\* another principal's Catalog entry before it
C24_Witness ==
    /\ filt.filter = "filterPermissions"
    /\ filt.pc = "filtered"
    /\ filt.request.input.resource.kinds = {"Catalog", "Database", "Table"}
    /\ Len(filt.allPermissions) = 2
    /\ filt.allPermissions[1].principal = "bob"
    /\ filt.allPermissions[1].kind = "Catalog"
    /\ filt.allPermissions[2].principal = "alice"
    /\ filt.allPermissions[2].kind = "Catalog"
    /\ filt.cleanPermissions = <<filt.allPermissions[2]>>

\* the association has a subnet ID or a gateway ID, and it is the target
HasTarget(association, targetID) ==
    \/ association.subnet # "" /\ association.subnet = targetID
    \/ association.gateway # "" /\ association.gateway = targetID

\* C25: resourceAwsRouteTableAssociationImport succeeds only for an import ID
\* of exactly two "/"-separated parts, target and route table, whose route
\* table exists and has an association whose subnet ID or gateway ID is the
\* target; the resource ID is then the association ID of the first such
\* association in list order, subnet_id or gateway_id is the target and
\* route_table_id the route table; in every other case an error is returned
\* and the resource ID stays the import string; an association with neither
\* subnet nor gateway, the main association, is never selected.
C25_ImportSelectsTarget ==
    (rd.handler = "resourceAwsRouteTableAssociationImport" /\ rd.pc = "done") =>
        LET parts == Split(rd.config.import_id)
            associations ==
                IF Len(parts) = 2 /\ parts[2] = "rtb-1" /\ rd.config.err = NoError
                THEN rd.config.associations ELSE <<>>
            matching == { i \in DOMAIN associations :
                            HasTarget(associations[i], parts[1]) }
        IN  /\ rd.err = NoError =>
                   /\ Len(parts) = 2
                   /\ matching # {}
                   /\ \E i \in matching :
                          /\ \A j \in matching : i <= j
                          /\ rd.id = associations[i].id
                   /\ rd.attrs.route_table_id = parts[2]
                   /\ parts[1] \in {rd.attrs.subnet_id, rd.attrs.gateway_id}
                   /\ \A i \in DOMAIN associations :
                          rd.id = associations[i].id =>
                              associations[i].subnet # "" \/ associations[i].gateway # ""
            /\ matching = {} =>
                   /\ IsError(rd.err)
                   /\ rd.id = Join(rd.config.import_id)
            /\ matching # {} => rd.err = NoError
            /\ IsError(rd.err) => rd.id = Join(rd.config.import_id)

\* the import ID "/rtb-1" has an empty target; the route table's first
\* association is the main one, and the import returned nil with the main
\* association's ID as the resource ID
C25_Witness ==
    /\ rd.handler = "resourceAwsRouteTableAssociationImport"
    /\ rd.pc = "done"
    /\ rd.id = "rtbassoc-main"
    /\ rd.priorId = "/rtb-1"
    /\ rd.err = NoError
    /\ rd.config.associations[1].id = "rtbassoc-main"

====
